---------------------------- MODULE Spec2Model ----------------------------
(***************************************************************************)
(* A model of nmtui-go (src/cmd/main.go): the access-point merge           *)
(* (getAllWifiItems, applyFilterAndUpdateList) and the part of the         *)
(* bubbletea Update loop that feeds it.                                    *)
(*                                                                         *)
(* Go strings are sequences of byte codes (<<97>> is "a"), so that         *)
(* lower-casing, substring search, byte-wise comparison and the            *)
(* concatenation that builds a map key are computed, not assumed.          *)
(* A Go map is a function; ranging over it visits its keys in an order the *)
(* runtime picks, which the model draws from all orders.                   *)
(* A nil pointer is the empty sequence, a set pointer a 1-element one.     *)
(***************************************************************************)
EXTENDS Integers, Sequences, FiniteSets, Bags, TLC

(***************************************************************************)
(* Strings                                                                 *)
(***************************************************************************)

\* ""
EmptyStr == <<>>

\* "--", nmcli's placeholder for a missing value
Placeholder == <<45, 45>>

\* "<Hidden Network>"
HiddenDisplay == <<60, 72, 105, 100, 100, 101, 110, 32, 78, 101, 116, 119, 111, 114, 107, 62>>

\* "|", the prefix of a hidden network's dedup key
KeyPrefix == <<124>>

\* strings.ToLower on one byte (ASCII)
LowerByte(c) == IF c >= 65 /\ c <= 90 THEN c + 32 ELSE c

\* strings.ToLower
ToLower(s) == [i \in 1..Len(s) |-> LowerByte(s[i])]

\* strings.Contains
Contains(s, sub) ==
    \E i \in 0..(Len(s) - Len(sub)) : SubSeq(s, i + 1, i + Len(sub)) = sub

\* Go's s < t on strings: byte-wise lexicographic
RECURSIVE StrLess(_, _)
StrLess(s, t) ==
    IF t = <<>> THEN FALSE
    ELSE IF s = <<>> THEN TRUE
    ELSE IF Head(s) # Head(t) THEN Head(s) < Head(t)
    ELSE StrLess(Tail(s), Tail(t))

(***************************************************************************)
(* Access points and connection profiles                                   *)
(*                                                                         *)
(* gonetworkmanager.WifiAccessPoint and ConnectionProfile are              *)
(* map[string]string; a record field holds the value under that key, and   *)
(* "" (EmptyStr) stands for a key that is absent, which is what indexing a *)
(* Go map yields.                                                          *)
(***************************************************************************)

\* wifiAP.SSID
SSID(ap) == IF ap.SSID = EmptyStr \/ ap.SSID = Placeholder THEN EmptyStr ELSE ap.SSID

\* wifiAP.DisplaySSID
DisplaySSID(ap) == IF SSID(ap) = EmptyStr THEN HiddenDisplay ELSE SSID(ap)

\* The value of a string of decimal digits
RECURSIVE DigitsValue(_)
DigitsValue(s) ==
    IF s = <<>> THEN 0
    ELSE DigitsValue(SubSeq(s, 1, Len(s) - 1)) * 10 + (s[Len(s)] - 48)

\* strconv.Atoi with its error dropped: 0 for a string that is no number
\* (nmcli prints the signal unsigned)
Atoi(s) ==
    IF s # <<>> /\ \A i \in 1..Len(s) : s[i] >= 48 /\ s[i] <= 57 THEN DigitsValue(s) ELSE 0

\* wifiAP.Signal
Signal(ap) == Atoi(ap.SIGNAL)

\* "Open"
OpenText == <<79, 112, 101, 110>>

\* wifiAP.Security
Security(ap) ==
    IF ap.SECURITY = EmptyStr \/ ap.SECURITY = Placeholder THEN OpenText ELSE ap.SECURITY

\* wifiAP.IsOpen
IsOpen(ap) == ToLower(Security(ap)) \in { EmptyStr, ToLower(OpenText), Placeholder }

\* wifiAP.IsHidden
IsHidden(ap) == SSID(ap) = EmptyStr

\* An entry of the scan: wifiAP{WifiAccessPoint: raw}, as fetchWifiNetworksCmd builds it
ScannedAP(ssid, bssid, signal, security) ==
    [SSID |-> ssid, BSSID |-> bssid, SIGNAL |-> signal, SECURITY |-> security,
     NAME |-> EmptyStr, UUID |-> EmptyStr, TYPE |-> EmptyStr, DEVICE |-> EmptyStr,
     SSID80211 |-> EmptyStr,
     IsKnown |-> FALSE, IsActive |-> FALSE, Interface |-> EmptyStr]

\* A connection profile as nmcli lists it
Profile(name, uuid, type, device, ssid, ssid80211) ==
    [NAME |-> name, UUID |-> uuid, TYPE |-> type, DEVICE |-> device,
     SSID |-> ssid, SSID80211 |-> ssid80211]

\* gonetworkmanager.GetSSIDFromProfile
GetSSIDFromProfile(profile) ==
    IF profile.SSID # EmptyStr THEN profile.SSID ELSE profile.SSID80211

\* The SSID a profile is filed under: its SSID, else its name
ProfileSSIDOrName(profile) ==
    IF GetSSIDFromProfile(profile) = EmptyStr THEN profile.NAME
    ELSE GetSSIDFromProfile(profile)

\* connectionProfileToWifiAP; activeConn is <<>> (nil) or <<profile>>
connectionProfileToWifiAP(profile, activeConn) ==
    [SSID |-> ProfileSSIDOrName(profile), BSSID |-> EmptyStr, SIGNAL |-> EmptyStr,
     SECURITY |-> EmptyStr,
     NAME |-> profile.NAME, UUID |-> profile.UUID, TYPE |-> profile.TYPE,
     DEVICE |-> profile.DEVICE, SSID80211 |-> profile.SSID80211,
     IsKnown |-> TRUE,
     IsActive |-> IF activeConn # <<>> THEN profile.UUID = activeConn[1].UUID ELSE FALSE,
     Interface |-> profile.DEVICE]

(***************************************************************************)
(* The merge: getAllWifiItems                                              *)
(***************************************************************************)

\* m[k] = v on a Go map
MapPut(m, k, v) == [x \in (DOMAIN m) \cup {k} |-> IF x = k THEN v ELSE m[x]]

\* The key a scanned AP is filed under in the dedup map
DedupKey(ap) == IF SSID(ap) = EmptyStr THEN KeyPrefix \o ap.BSSID ELSE SSID(ap)

\* One iteration of the dedup loop
DedupStep(deduped, ap) ==
    IF SSID(ap) = EmptyStr
    THEN MapPut(deduped, DedupKey(ap), ap)
    ELSE IF SSID(ap) \in DOMAIN deduped
         THEN IF Signal(ap) > Signal(deduped[SSID(ap)])
              THEN MapPut(deduped, SSID(ap), ap)
              ELSE deduped
         ELSE MapPut(deduped, SSID(ap), ap)

\* The dedup loop over the scanned list, in list order
RECURSIVE DedupScanned(_, _)
DedupScanned(aps, deduped) ==
    IF aps = <<>> THEN deduped
    ELSE DedupScanned(Tail(aps), DedupStep(deduped, Head(aps)))

\* The loop that adds the known profiles whose key is not in the map yet
AddKnownNotInScan(deduped, knownProfiles, activeConn) ==
    [k \in (DOMAIN deduped) \cup (DOMAIN knownProfiles) |->
        IF k \in DOMAIN deduped THEN deduped[k]
        ELSE connectionProfileToWifiAP(knownProfiles[k], activeConn)]

\* The dedup map after both loops
DedupedMap(scanned, knownProfiles, activeConn) ==
    AddKnownNotInScan(DedupScanned(scanned, <<>>), knownProfiles, activeConn)

\* The known/active marking of one visible entry
\* A faulty enrichment: a known entry is marked active whenever some
\* connection is active, without comparing UUIDs
EnrichActiveWhenKnown(ap, knownProfiles, activeConn) ==
    IF SSID(ap) # EmptyStr /\ SSID(ap) \in DOMAIN knownProfiles
    THEN [ap EXCEPT !.IsKnown = TRUE, !.IsActive = activeConn # <<>>]
    ELSE ap

\* A faulty enrichment: the connection type is compared instead of the UUID
EnrichByType(ap, knownProfiles, activeConn) ==
    IF SSID(ap) # EmptyStr /\ SSID(ap) \in DOMAIN knownProfiles
    THEN IF activeConn # <<>>
         THEN LET act == knownProfiles[SSID(ap)].TYPE = activeConn[1].TYPE
              IN  [ap EXCEPT !.IsKnown = TRUE,
                             !.IsActive = act,
                             !.Interface = IF act THEN knownProfiles[SSID(ap)].DEVICE
                                           ELSE @]
         ELSE [ap EXCEPT !.IsKnown = TRUE]
    ELSE ap

Enrich(ap, knownProfiles, activeConn) ==
    IF SSID(ap) # EmptyStr /\ SSID(ap) \in DOMAIN knownProfiles
    THEN IF activeConn # <<>>
         THEN LET act == knownProfiles[SSID(ap)].UUID = activeConn[1].UUID
              IN  [ap EXCEPT !.IsKnown = TRUE,
                             !.IsActive = act,
                             !.Interface = IF act THEN knownProfiles[SSID(ap)].DEVICE
                                           ELSE @]
         ELSE [ap EXCEPT !.IsKnown = TRUE]
    ELSE ap

\* A faulty loop: hidden entries are kept whatever showHidden says
RECURSIVE VisibleItemsKeepHidden(_, _, _, _, _)
VisibleItemsKeepHidden(deduped, order, knownProfiles, activeConn, showHidden) ==
    IF order = <<>> THEN <<>>
    ELSE <<Enrich(deduped[Head(order)], knownProfiles, activeConn)>>
         \o VisibleItemsKeepHidden(deduped, Tail(order), knownProfiles, activeConn, showHidden)

\* The loop over the dedup map that builds items; order lists the map's keys
\* in the order the range statement happens to visit them
RECURSIVE VisibleItems(_, _, _, _, _)
VisibleItems(deduped, order, knownProfiles, activeConn, showHidden) ==
    IF order = <<>> THEN <<>>
    ELSE LET ap == deduped[Head(order)]
             rest == VisibleItems(deduped, Tail(order), knownProfiles, activeConn, showHidden)
         IN  IF ~showHidden /\ IsHidden(ap) THEN rest
             ELSE <<Enrich(ap, knownProfiles, activeConn)>> \o rest

\* A faulty less function: weaker signal first
LessSignalAscending(a, b) ==
    IF a.IsActive # b.IsActive THEN a.IsActive
    ELSE IF a.IsKnown # b.IsKnown THEN a.IsKnown
    ELSE IF a.IsKnown /\ b.IsKnown /\ (Signal(a) > 0) # (Signal(b) > 0) THEN Signal(a) > 0
    ELSE IF Signal(a) # Signal(b) THEN Signal(a) < Signal(b)
    ELSE IF IsHidden(a) # IsHidden(b) THEN ~IsHidden(a)
    ELSE StrLess(ToLower(DisplaySSID(a)), ToLower(DisplaySSID(b)))

\* The less function handed to sort.SliceStable
Less(a, b) ==
    IF a.IsActive # b.IsActive THEN a.IsActive
    ELSE IF a.IsKnown # b.IsKnown THEN a.IsKnown
    ELSE IF a.IsKnown /\ b.IsKnown /\ (Signal(a) > 0) # (Signal(b) > 0) THEN Signal(a) > 0
    ELSE IF Signal(a) # Signal(b) THEN Signal(a) > Signal(b)
    ELSE IF IsHidden(a) # IsHidden(b) THEN ~IsHidden(a)
    ELSE StrLess(ToLower(DisplaySSID(a)), ToLower(DisplaySSID(b)))

\* Insertion of x into the sorted prefix: x moves left while it is less than
\* its left neighbour
RECURSIVE InsertSorted(_, _)
InsertSorted(sorted, x) ==
    IF sorted = <<>> THEN <<x>>
    ELSE IF Less(x, sorted[Len(sorted)])
         THEN Append(InsertSorted(SubSeq(sorted, 1, Len(sorted) - 1), x), sorted[Len(sorted)])
         ELSE Append(sorted, x)

\* sort.SliceStable (an insertion sort for the lengths a scan produces)
RECURSIVE SortSliceStable(_)
SortSliceStable(items) ==
    IF items = <<>> THEN <<>>
    ELSE InsertSorted(SortSliceStable(SubSeq(items, 1, Len(items) - 1)), items[Len(items)])

\* getAllWifiItems
getAllWifiItems(scanned, knownProfiles, activeConn, showHidden, order) ==
    SortSliceStable(
        VisibleItems(DedupedMap(scanned, knownProfiles, activeConn), order,
                     knownProfiles, activeConn, showHidden))

\* All sequences that list each element of S once
RECURSIVE Orders(_)
Orders(S) ==
    IF S = {} THEN {<<>>}
    ELSE UNION { { <<x>> \o rest : rest \in Orders(S \ {x}) } : x \in S }

\* The orders in which the range over the dedup map can visit its keys
IterationOrders(scanned, knownProfiles, activeConn) ==
    Orders(DOMAIN DedupedMap(scanned, knownProfiles, activeConn))

\* The text filter of applyFilterAndUpdateList
\* A faulty filter: the query is compared without lower-casing it
RECURSIVE FilterItemsQueryAsTyped(_, _)
FilterItemsQueryAsTyped(allItems, filterQuery) ==
    IF filterQuery = EmptyStr THEN allItems
    ELSE IF allItems = <<>> THEN <<>>
    ELSE IF Contains(ToLower(DisplaySSID(Head(allItems))), filterQuery)
         THEN <<Head(allItems)>> \o FilterItemsQueryAsTyped(Tail(allItems), filterQuery)
         ELSE FilterItemsQueryAsTyped(Tail(allItems), filterQuery)

RECURSIVE FilterItems(_, _)
FilterItems(allItems, filterQuery) ==
    IF filterQuery = EmptyStr THEN allItems
    ELSE IF allItems = <<>> THEN <<>>
    ELSE IF Contains(ToLower(DisplaySSID(Head(allItems))), ToLower(filterQuery))
         THEN <<Head(allItems)>> \o FilterItems(Tail(allItems), filterQuery)
         ELSE FilterItems(Tail(allItems), filterQuery)

(***************************************************************************)
(* The program's state: the fields of model (src/cmd/main.go, type model)  *)
(* that the modelled handlers read or write, the commands in flight and    *)
(* whether the program still runs.                                         *)
(***************************************************************************)
VARIABLES
    state,                \* model.state
    previousState,        \* model.previousState
    wifiList,             \* model.wifiList: the items shown, in order
    wifiListTitle,        \* model.wifiList.Title
    filterInput,          \* model.filterInput: the text it holds
    selectedAP,           \* model.selectedAP
    connectionStatusMsg,  \* model.connectionStatusMsg
    wifiEnabled,          \* model.wifiEnabled
    knownProfiles,        \* model.knownProfiles
    activeWifiConnection, \* model.activeWifiConnection
    activeWifiDevice,     \* model.activeWifiDevice
    allScannedAps,        \* model.allScannedAps
    showHiddenNetworks,   \* model.showHiddenNetworks
    isLoading,            \* model.isLoading
    isScanning,           \* model.isScanning
    isFiltering,          \* model.isFiltering
    filterQuery,          \* model.filterQuery
    pending,              \* the tea.Cmds dispatched and not yet answered (a bag)
    running,              \* FALSE once Update has returned tea.Quit
    beforeFilter,         \* history: what was shown, and from which inputs, when
                          \* filter mode was entered with no filter set
    keysHandled,          \* history: the number of keys handled so far, the text
                          \* typed into the filter or password input not counted
    passwordInput,        \* model.passwordInput: its value and whether it has focus
    lastConnectionWasSuccessful,  \* model.lastConnectionWasSuccessful
    lastMsg,              \* history: the result message of an operation (connect,
                          \* its timeout, disconnect, forget, Wi-Fi status) Update
                          \* handled last, with the seq of its command
    knownWifiList,        \* model.knownWifiList: its items and its title
    activeConnInfo,       \* the content set on model.activeConnInfoViewport
    clearScheduledFor,    \* history: the status that was shown when the
                          \* clearStatusAfterDelay in flight was dispatched
    quitKey,              \* history: the key on which Update returned tea.Quit
    hiddenSSIDInput,      \* model.hiddenSSIDInput: its value and whether it has focus
    gateway               \* the call of gonetworkmanager.ConnectToWifiRobustly in
                          \* progress: its arguments, the profiles nmcli stores, the
                          \* nmcli calls issued so far and where the call stands

viewVars == <<state, previousState, selectedAP, connectionStatusMsg>>
listVars == <<wifiList, wifiListTitle>>
filterVars == <<filterInput, isFiltering, filterQuery>>
netVars == <<wifiEnabled, knownProfiles, activeWifiConnection, activeWifiDevice, allScannedAps>>
flagVars == <<showHiddenNetworks, isLoading, isScanning>>
histVars == <<beforeFilter, keysHandled>>
connVars == <<passwordInput, lastConnectionWasSuccessful, lastMsg>>
pageVars == <<knownWifiList, activeConnInfo>>
callVars == <<hiddenSSIDInput, gateway>>
vars == <<viewVars, listVars, filterVars, netVars, flagVars, pending, running, histVars,
          connVars, pageVars, clearScheduledFor, quitKey, callVars>>

\* A connectionAttemptMsg, a connectionTimeoutMsg (success and
\* wasKnownAttemptNoPsk FALSE), a disconnectResultMsg, a forgetNetworkResultMsg
\* or a wifiStatusMsg (success when it carries no error), with the seq of the
\* command that returned it
ConnMsg(kind, ssid, success, wasKnownAttemptNoPsk, seq) ==
    [kind |-> kind, ssid |-> ssid, success |-> success,
     wasKnownAttemptNoPsk |-> wasKnownAttemptNoPsk, seq |-> seq]

\* No such message handled yet
NoMsg == ConnMsg("", EmptyStr, FALSE, FALSE, 0)

\* knownWifiList: its items and which title it has (the title "Known Wi-Fi
\* Profiles (n)" is told by its kind and the number of items)
KnownList(items, title) == [items |-> items, title |-> title]

\* A textinput.Model: its value and whether it has focus
TextInput(value, focus) == [value |-> value, focus |-> focus]

\* No call of ConnectToWifiRobustly in progress
NoCall == [pc |-> "none"]

\* wifiList.Title: which text it is, and for the networks title its numbers
Title(kind, known, available, hiding, filtered) ==
    [kind |-> kind, known |-> known, available |-> available,
     hiding |-> hiding, filtered |-> filtered]

\* A title without numbers ("Scanning...", "Refreshing...", ...)
PlainTitle(kind) == Title(kind, 0, 0, FALSE, <<>>)

\* The number of known entries of a list
RECURSIVE KnownCount(_)
KnownCount(items) ==
    IF items = <<>> THEN 0
    ELSE (IF Head(items).IsKnown THEN 1 ELSE 0) + KnownCount(Tail(items))

\* updateListTitle: the title computed from the items just set
updateListTitle(items, totalCount, showHidden, query) ==
    Title("Wi-Fi Networks", KnownCount(items), Len(items) - KnownCount(items),
          ~showHidden,
          IF query # EmptyStr THEN <<Len(items), totalCount>> ELSE <<>>)

\* applyFilterAndUpdateList, run on the given values of the fields it reads:
\* the items and the title it can set, one pair for each order the range over
\* the dedup map can take
applyFilterAndUpdateList(scanned, known, activeConn, showHidden, query) ==
    { LET allItems == getAllWifiItems(scanned, known, activeConn, showHidden, order)
          filteredItems == FilterItems(allItems, query)
      IN  [items |-> filteredItems,
           title |-> updateListTitle(filteredItems, Len(allItems), showHidden, query)] :
      order \in IterationOrders(scanned, known, activeConn) }

\* The zero wifiAP
ZeroAP == ScannedAP(EmptyStr, EmptyStr, EmptyStr, EmptyStr)

\* setStatus: the rendered text, as the message and the value formatted into it
Status(text, arg) == [text |-> text, arg |-> arg]

\* clearStatus: the empty status
NoStatus == Status("", EmptyStr)

(***************************************************************************)
(* Inputs of the merge, for the specification that checks it as a          *)
(* function of its inputs                                                  *)
(***************************************************************************)

\* The longest scanned list drawn
MaxScan == 2

\* Scanned access points
ApLowA40 == ScannedAP(<<97>>, <<120>>, <<52, 48>>, <<>>)              \* "a", signal 40
ApLowA75 == ScannedAP(<<97>>, <<121>>, <<55, 53>>, <<>>)              \* "a", signal 75
ApUpA75 == ScannedAP(<<65>>, <<120>>, <<55, 53>>, <<>>)               \* "A", signal 75
ApBarX75 == ScannedAP(<<124, 120>>, <<121>>, <<55, 53>>, <<>>)        \* "|x", signal 75
ApHiddenX40 == ScannedAP(Placeholder, <<120>>, <<52, 48>>, <<>>)      \* "--", BSSID "x"
ApHiddenY40 == ScannedAP(EmptyStr, <<121>>, <<52, 48>>, <<>>)         \* "", BSSID "y"
ApHiddenNone40 == ScannedAP(EmptyStr, EmptyStr, <<52, 48>>, <<>>)     \* "", no BSSID
ApHiddenNone75 == ScannedAP(EmptyStr, EmptyStr, <<55, 53>>, <<>>)     \* "", no BSSID

\* "wifi"
TypeWifi == <<119, 105, 102, 105>>

\* Profiles "a", "b", "|x" and "--", and a second profile "a2" whose SSID is "a"
ProfileA == Profile(<<97>>, <<49>>, TypeWifi, <<119>>, EmptyStr, EmptyStr)
ProfileB == Profile(<<98>>, <<50>>, TypeWifi, EmptyStr, EmptyStr, EmptyStr)
ProfileBar == Profile(<<124, 120>>, <<51>>, TypeWifi, EmptyStr, EmptyStr, EmptyStr)
ProfileDash == Profile(Placeholder, <<52>>, TypeWifi, <<119>>, EmptyStr, EmptyStr)
ProfileA2 == Profile(<<97, 50>>, <<53>>, TypeWifi, <<119>>, <<97>>, EmptyStr)

\* The map that files each profile of a set under its SSID (or name)
KnownMapOf(profiles) ==
    [k \in {ProfileSSIDOrName(p) : p \in profiles} |->
        CHOOSE p \in profiles : ProfileSSIDOrName(p) = k]

\* One input of the merge
MergeInput(scanned, known, activeConn, showHidden, query) ==
    [scanned |-> scanned, known |-> known, activeConn |-> activeConn,
     showHidden |-> showHidden, query |-> query]

\* Sequences over S of length at most n
SeqsUpTo(S, n) == UNION { [1..k -> S] : k \in 0..n }

\* Inputs around named networks: duplicates of "a", the case variant "A", the
\* SSID "|x" next to a hidden network with BSSID "x"; the known map holds
\* profiles in range and out of range; the active connection is none, a
\* profile of the map, or a profile the map does not hold; filter "" or "A"
NamedInputs ==
    { MergeInput(sc, ka[1], ka[2], sh, q) :
        sc \in SeqsUpTo({ApLowA40, ApLowA75, ApUpA75, ApBarX75, ApHiddenX40}, MaxScan),
        ka \in { <<KnownMapOf({}), <<>>>>,
                 <<KnownMapOf({}), <<ProfileA>>>>,
                 <<KnownMapOf({ProfileA, ProfileB}), <<>>>>,
                 <<KnownMapOf({ProfileA, ProfileB}), <<ProfileA>>>>,
                 <<KnownMapOf({ProfileA, ProfileB}), <<ProfileB>>>>,
                 <<KnownMapOf({ProfileA, ProfileB}), <<ProfileA2>>>>,
                 <<KnownMapOf({ProfileB, ProfileBar}), <<>>>>,
                 <<KnownMapOf({ProfileB, ProfileBar}), <<ProfileB>>>>,
                 <<KnownMapOf({ProfileB, ProfileBar}), <<ProfileA>>>> },
        sh \in BOOLEAN,
        q \in { EmptyStr, <<65>> } }

\* Inputs around hidden networks: with BSSID "x" and "y", without BSSID, a
\* profile whose SSID is the placeholder; filter "" or "N"
HiddenInputs ==
    { MergeInput(sc, ka[1], ka[2], sh, q) :
        sc \in SeqsUpTo({ApHiddenX40, ApHiddenY40, ApHiddenNone40, ApHiddenNone75,
                         ApLowA75}, MaxScan),
        ka \in { <<KnownMapOf({}), <<>>>>,
                 <<KnownMapOf({ProfileB, ProfileDash}), <<>>>>,
                 <<KnownMapOf({ProfileB, ProfileDash}), <<ProfileDash>>>>,
                 <<KnownMapOf({ProfileB, ProfileBar}), <<>>>> },
        sh \in BOOLEAN,
        q \in { EmptyStr, <<78>> } }

(***************************************************************************)
(* Specification of the merge as a function of its inputs: any scanned     *)
(* list, known map, active connection, hidden switch and filter text, on   *)
(* which applyFilterAndUpdateList runs.                                    *)
(***************************************************************************)
MergeInit ==
    \E in \in NamedInputs \cup HiddenInputs :
        /\ state = "NetworksList"
        /\ previousState = "NetworksList"
        /\ wifiList = <<>>
        /\ wifiListTitle = PlainTitle("Scanning for Wi-Fi Networks...")
        /\ filterInput = EmptyStr
        /\ selectedAP = ZeroAP
        /\ connectionStatusMsg = NoStatus
        /\ wifiEnabled = FALSE
        /\ knownProfiles = in.known
        /\ activeWifiConnection = in.activeConn
        /\ activeWifiDevice = EmptyStr
        /\ allScannedAps = in.scanned
        /\ showHiddenNetworks = in.showHidden
        /\ isLoading = FALSE
        /\ isScanning = FALSE
        /\ isFiltering = FALSE
        /\ filterQuery = in.query
        /\ pending = EmptyBag
        /\ running = TRUE
        /\ beforeFilter = <<>>
        /\ keysHandled = 0
        /\ passwordInput = TextInput(EmptyStr, FALSE)
        /\ lastConnectionWasSuccessful = FALSE
        /\ lastMsg = NoMsg
        /\ knownWifiList = KnownList(<<>>, "Known Wi-Fi Profiles")
        /\ activeConnInfo = ""
        /\ clearScheduledFor = NoStatus
        /\ quitKey = ""
        /\ hiddenSSIDInput = TextInput(EmptyStr, FALSE)
        /\ gateway = NoCall

\* applyFilterAndUpdateList on the model's fields
RunApplyFilter ==
    /\ \E r \in applyFilterAndUpdateList(allScannedAps, knownProfiles, activeWifiConnection,
                                         showHiddenNetworks, filterQuery) :
           /\ wifiList' = r.items
           /\ wifiListTitle' = r.title
    /\ UNCHANGED <<viewVars, filterVars, netVars, flagVars, pending, running, histVars>>
    /\ UNCHANGED connVars
    /\ UNCHANGED pageVars
    /\ UNCHANGED clearScheduledFor
    /\ UNCHANGED quitKey
    /\ UNCHANGED callVars

MergeNext == wifiListTitle.kind = "Scanning for Wi-Fi Networks..." /\ RunApplyFilter

MergeSpec == MergeInit /\ [][MergeNext]_vars

(***************************************************************************)
(* The session: the model initialModel builds, the commands Init           *)
(* dispatches, and Update's handlers for the messages and keys of the      *)
(* network list, the disconnect and the forget confirmations.  The spinner *)
(* ticks, the cursor blink and the cache write return no message that      *)
(* changes a modelled field and are left out of the commands in flight.    *)
(***************************************************************************)

\* At most this many commands of one kind are in flight at once
MaxInFlight == 1

\* At most this many copies of the command a confirm dialog dispatches are in
\* flight: Enter dispatches it each time it is pressed
MaxRepeats == 2

\* At most this many keys are pressed in a session, the text typed into the
\* filter input not counted
MaxKeys == 2

\* At most this many characters are typed into the filter input
MaxFilterLen == 1

\* A tea.Cmd in flight: its kind and the arguments its closure captured; seq
\* tells one closure from another of the same arguments where that matters
\* (history: the ordinal of the key press that dispatched it, else 0)
Cmd(kind, id, ssid, flag) ==
    [kind |-> kind, id |-> id, ssid |-> ssid, flag |-> flag, seq |-> 0]

getWifiStatusCmd == Cmd("getWifiStatus", EmptyStr, EmptyStr, FALSE)

fetchKnownNetworksCmd == Cmd("fetchKnownNetworks", EmptyStr, EmptyStr, FALSE)

fetchWifiNetworksCmd(rescan) == Cmd("fetchWifiNetworks", EmptyStr, EmptyStr, rescan)

toggleWifiCmd(enable) == Cmd("toggleWifi", EmptyStr, EmptyStr, enable)

disconnectWifiCmd(profileID) == Cmd("disconnectWifi", profileID, EmptyStr, FALSE)

forgetNetworkCmd(profileID, ssid) == Cmd("forgetNetwork", profileID, ssid, FALSE)

fetchKnownWifiApsCmd == Cmd("fetchKnownWifiAps", EmptyStr, EmptyStr, FALSE)

clearStatusAfterDelay == Cmd("clearStatusAfterDelay", EmptyStr, EmptyStr, FALSE)

\* The status the clearStatusAfterDelay in flight after this step was
\* dispatched for: the status this step sets if it dispatches one
ScheduledFor ==
    IF CopiesIn(clearStatusAfterDelay, pending') > CopiesIn(clearStatusAfterDelay, pending)
    THEN connectionStatusMsg'
    ELSE IF BagIn(clearStatusAfterDelay, pending') THEN clearScheduledFor
    ELSE NoStatus

\* tea.Batch: the commands of cmds join the commands in flight
RECURSIVE Batch(_, _)
Batch(inFlight, cmds) ==
    IF cmds = <<>> THEN inFlight
    ELSE Batch(inFlight (+) SetToBag({Head(cmds)}), Tail(cmds))

\* The commands in flight once c has returned its message
Answered(c) == pending (-) SetToBag({c})

\* The commands of cmds (distinct) can join those of inFlight within MaxInFlight
HasRoom(inFlight, cmds) ==
    \A i \in 1..Len(cmds) : CopiesIn(cmds[i], inFlight) < MaxInFlight

\* The commands in flight of one kind
InFlight(kind) == { c \in BagToSet(pending) : c.kind = kind }

\* "ethernet"
TypeEthernet == <<101, 116, 104>>

\* A wired profile
ProfileEth == Profile(<<101>>, <<54>>, TypeEthernet, <<101>>, EmptyStr, EmptyStr)

\* One step of fetchKnownNetworksCmd's loop over the profiles
KnownStep(acc, profile, activeUUIDs) ==
    IF profile.TYPE # TypeWifi \/ ProfileSSIDOrName(profile) = EmptyStr THEN acc
    ELSE [knownProfiles |-> MapPut(acc.knownProfiles, ProfileSSIDOrName(profile), profile),
          activeWifiConnection |-> IF profile.UUID \in activeUUIDs THEN <<profile>>
                                   ELSE acc.activeWifiConnection,
          activeWifiDevice |-> IF profile.UUID \in activeUUIDs THEN profile.DEVICE
                               ELSE acc.activeWifiDevice]

RECURSIVE KnownLoop(_, _, _)
KnownLoop(acc, profiles, activeUUIDs) ==
    IF profiles = <<>> THEN acc
    ELSE KnownLoop(KnownStep(acc, Head(profiles), activeUUIDs), Tail(profiles), activeUUIDs)

\* The knownNetworksMsg fetchKnownNetworksCmd returns for the profiles and the
\* active profiles nmcli lists
FetchKnownNetworks(profiles, activeProfiles) ==
    KnownLoop([knownProfiles |-> <<>>, activeWifiConnection |-> <<>>,
               activeWifiDevice |-> EmptyStr],
              profiles,
              { activeProfiles[i].UUID :
                  i \in { j \in 1..Len(activeProfiles) : activeProfiles[j].TYPE = TypeWifi } })

\* What nmcli can list: <<profiles, active profiles>>
ProfileListings ==
    { << <<ProfileA, ProfileB, ProfileEth>>, <<ProfileA, ProfileEth>> >>,
      << <<ProfileB>>, <<>> >> }

\* What a scan can return
ScanResults ==
    { <<>>,
      <<ApLowA75, ApUpA75>> }

\* What the cache file can hold: <<>> when it is missing or unreadable, else
\* <<the list saved by an earlier run>>
CacheContents == { <<>>, << <<ApLowA40, ApHiddenY40>> >> }

\* A tea.KeyMsg the filter input edits its text on
Key(type, rune) == [type |-> type, rune |-> rune]

\* The keys typed into the filter input: "a" and backspace
FilterKeys == { Key("runes", 97), Key("backspace", 0) }

\* initialModel, then the commands of Init
Init ==
    \E cache \in CacheContents :
        /\ state = "NetworksList"
        /\ previousState = "NetworksList"
        /\ filterInput = EmptyStr
        /\ selectedAP = ZeroAP
        /\ connectionStatusMsg = NoStatus
        /\ wifiEnabled = FALSE
        /\ knownProfiles = <<>>
        /\ activeWifiConnection = <<>>
        /\ activeWifiDevice = EmptyStr
        /\ showHiddenNetworks = FALSE
        /\ isLoading = TRUE
        /\ isScanning = TRUE
        /\ isFiltering = FALSE
        /\ filterQuery = EmptyStr
        /\ IF cache = <<>>
           THEN /\ allScannedAps = <<>>
                /\ wifiList = <<>>
                /\ wifiListTitle = PlainTitle("Scanning for Wi-Fi Networks...")
           ELSE /\ allScannedAps = cache[1]
                /\ \E r \in applyFilterAndUpdateList(cache[1], <<>>, <<>>, FALSE, EmptyStr) :
                       /\ wifiList = r.items
                       /\ wifiListTitle = r.title
        /\ pending = Batch(EmptyBag, <<getWifiStatusCmd, fetchKnownNetworksCmd,
                                       fetchWifiNetworksCmd(TRUE)>>)
        /\ running = TRUE
        /\ beforeFilter = <<>>
        /\ keysHandled = 0
        /\ passwordInput = TextInput(EmptyStr, FALSE)
        /\ lastConnectionWasSuccessful = FALSE
        /\ lastMsg = NoMsg
        /\ knownWifiList = KnownList(<<>>, "Known Wi-Fi Profiles")
        /\ activeConnInfo = ""
        /\ clearScheduledFor = NoStatus
        /\ quitKey = ""
        /\ hiddenSSIDInput = TextInput(EmptyStr, FALSE)
        /\ gateway = NoCall

\* delete(m, k) on a Go map
MapDelete(m, k) == [x \in (DOMAIN m) \ {k} |-> m[x]]

\* case clearStatusMsg
HandleClearStatusMsg ==
    /\ running
    /\ \E c \in InFlight("clearStatusAfterDelay") : pending' = Answered(c)
    /\ connectionStatusMsg' = IF state = "NetworksList" THEN NoStatus ELSE connectionStatusMsg
    /\ UNCHANGED <<state, previousState, selectedAP, listVars, filterVars, netVars, flagVars,
                   running, histVars>>
    /\ UNCHANGED connVars
    /\ UNCHANGED pageVars
    /\ clearScheduledFor' = ScheduledFor
    /\ UNCHANGED quitKey
    /\ UNCHANGED callVars

\* The wifiStatusMsg getWifiStatusCmd or toggleWifiCmd can return
WifiStatusResults(c) ==
    IF c.kind = "getWifiStatus"
    THEN { [enabled |-> FALSE, err |-> TRUE],
           [enabled |-> TRUE, err |-> FALSE],
           [enabled |-> FALSE, err |-> FALSE] }
    ELSE { [enabled |-> ~c.flag, err |-> TRUE],
           [enabled |-> c.flag, err |-> FALSE] }

\* case wifiStatusMsg
HandleWifiStatusMsg ==
    /\ running
    /\ \E c \in InFlight("getWifiStatus") \cup InFlight("toggleWifi") :
       \E msg \in WifiStatusResults(c) :
           IF msg.err
           THEN /\ lastMsg' = ConnMsg("wifiStatusMsg", EmptyStr, FALSE, FALSE, 0)
                /\ isLoading' = FALSE
                /\ IF state = "NetworksList"
                   THEN /\ connectionStatusMsg' = Status("Error getting Wi-Fi status", EmptyStr)
                        /\ HasRoom(Answered(c), <<clearStatusAfterDelay>>)
                        /\ pending' = Batch(Answered(c), <<clearStatusAfterDelay>>)
                   ELSE /\ pending' = Answered(c)
                        /\ UNCHANGED connectionStatusMsg
                /\ UNCHANGED <<listVars, netVars, isScanning>>
           ELSE IF msg.enabled
           THEN /\ lastMsg' = ConnMsg("wifiStatusMsg", EmptyStr, TRUE, FALSE, 0)
                /\ wifiEnabled' = TRUE
                /\ isLoading' = TRUE
                /\ isScanning' = TRUE
                /\ wifiListTitle' = PlainTitle("Scanning...")
                /\ HasRoom(Answered(c), <<fetchKnownNetworksCmd, fetchWifiNetworksCmd(TRUE)>>)
                /\ pending' = Batch(Answered(c),
                                    <<fetchKnownNetworksCmd, fetchWifiNetworksCmd(TRUE)>>)
                /\ UNCHANGED <<wifiList, connectionStatusMsg, knownProfiles,
                               activeWifiConnection, activeWifiDevice, allScannedAps>>
           ELSE /\ lastMsg' = ConnMsg("wifiStatusMsg", EmptyStr, TRUE, FALSE, 0)
                /\ wifiEnabled' = FALSE
                /\ isLoading' = FALSE
                /\ isScanning' = FALSE
                /\ allScannedAps' = <<>>
                /\ \E r \in applyFilterAndUpdateList(<<>>, knownProfiles, activeWifiConnection,
                                                     showHiddenNetworks, filterQuery) :
                       wifiList' = r.items
                /\ wifiListTitle' = PlainTitle("Wi-Fi is Disabled")
                /\ activeWifiConnection' = <<>>
                /\ activeWifiDevice' = EmptyStr
                /\ connectionStatusMsg' = IF state = "NetworksList"
                                          THEN Status("Wi-Fi is disabled", EmptyStr)
                                          ELSE connectionStatusMsg
                /\ pending' = Answered(c)
                /\ UNCHANGED knownProfiles
    /\ UNCHANGED <<state, previousState, selectedAP, filterVars, showHiddenNetworks,
                   running, histVars, passwordInput, lastConnectionWasSuccessful>>
    /\ UNCHANGED pageVars
    /\ clearScheduledFor' = ScheduledFor
    /\ UNCHANGED quitKey
    /\ UNCHANGED callVars

HandleKnownNetworksMsgClearing ==
    /\ running
    /\ \E c \in InFlight("fetchKnownNetworks") :
          \/ /\ connectionStatusMsg' = Status("Error fetching profiles", EmptyStr)
             /\ HasRoom(Answered(c), <<clearStatusAfterDelay>>)
             /\ pending' = Batch(Answered(c), <<clearStatusAfterDelay>>)
             /\ activeWifiConnection' = <<>>
             /\ activeWifiDevice' = EmptyStr
             /\ UNCHANGED knownProfiles
          \/ \E listing \in ProfileListings :
                LET msg == FetchKnownNetworks(listing[1], listing[2])
                IN  /\ knownProfiles' = msg.knownProfiles
                    /\ activeWifiConnection' = msg.activeWifiConnection
                    /\ activeWifiDevice' = msg.activeWifiDevice
                    /\ pending' = Answered(c)
                    /\ UNCHANGED connectionStatusMsg
    /\ IF Len(allScannedAps) > 0
       THEN \E r \in applyFilterAndUpdateList(allScannedAps, knownProfiles',
                                              activeWifiConnection', showHiddenNetworks,
                                              filterQuery) :
                /\ wifiList' = r.items
                /\ wifiListTitle' = r.title
       ELSE UNCHANGED listVars
    /\ UNCHANGED <<state, previousState, selectedAP, filterVars, wifiEnabled, allScannedAps,
                   flagVars, running, histVars>>
    /\ UNCHANGED connVars
    /\ UNCHANGED pageVars
    /\ clearScheduledFor' = ScheduledFor
    /\ UNCHANGED quitKey
    /\ UNCHANGED callVars

\* case knownNetworksMsg
HandleKnownNetworksMsg ==
    /\ running
    /\ \E c \in InFlight("fetchKnownNetworks") :
          \/ /\ connectionStatusMsg' = Status("Error fetching profiles", EmptyStr)
             /\ HasRoom(Answered(c), <<clearStatusAfterDelay>>)
             /\ pending' = Batch(Answered(c), <<clearStatusAfterDelay>>)
             /\ UNCHANGED <<knownProfiles, activeWifiConnection, activeWifiDevice>>
          \/ \E listing \in ProfileListings :
                LET msg == FetchKnownNetworks(listing[1], listing[2])
                IN  /\ knownProfiles' = msg.knownProfiles
                    /\ activeWifiConnection' = msg.activeWifiConnection
                    /\ activeWifiDevice' = msg.activeWifiDevice
                    /\ pending' = Answered(c)
                    /\ UNCHANGED connectionStatusMsg
    /\ IF Len(allScannedAps) > 0
       THEN \E r \in applyFilterAndUpdateList(allScannedAps, knownProfiles',
                                              activeWifiConnection', showHiddenNetworks,
                                              filterQuery) :
                /\ wifiList' = r.items
                /\ wifiListTitle' = r.title
       ELSE UNCHANGED listVars
    /\ UNCHANGED <<state, previousState, selectedAP, filterVars, wifiEnabled, allScannedAps,
                   flagVars, running, histVars>>
    /\ UNCHANGED connVars
    /\ UNCHANGED pageVars
    /\ clearScheduledFor' = ScheduledFor
    /\ UNCHANGED quitKey
    /\ UNCHANGED callVars

\* case wifiListLoadedMsg
HandleWifiListLoadedMsg ==
    /\ running
    /\ isScanning' = FALSE
    /\ \E c \in InFlight("fetchWifiNetworks") :
          \/ /\ isLoading' = FALSE
             /\ IF state = "NetworksList"
                THEN /\ connectionStatusMsg' = Status("Error scanning", EmptyStr)
                     /\ HasRoom(Answered(c), <<clearStatusAfterDelay>>)
                     /\ pending' = Batch(Answered(c), <<clearStatusAfterDelay>>)
                ELSE /\ pending' = Answered(c)
                     /\ UNCHANGED connectionStatusMsg
             /\ wifiListTitle' = PlainTitle("Error Loading Networks")
             /\ UNCHANGED <<wifiList, allScannedAps>>
          \/ \E allAps \in ScanResults :
                /\ pending' = Answered(c)
                /\ UNCHANGED connectionStatusMsg
                /\ IF Len(allAps) > 0
                   THEN /\ isLoading' = FALSE
                        /\ allScannedAps' = allAps
                        /\ \E r \in applyFilterAndUpdateList(allAps, knownProfiles,
                                                             activeWifiConnection,
                                                             showHiddenNetworks, filterQuery) :
                               /\ wifiList' = r.items
                               /\ wifiListTitle' = r.title
                   ELSE UNCHANGED <<isLoading, listVars, allScannedAps>>
    /\ UNCHANGED <<state, previousState, selectedAP, filterVars, wifiEnabled, knownProfiles,
                   activeWifiConnection, activeWifiDevice, showHiddenNetworks,
                   running, histVars>>
    /\ UNCHANGED connVars
    /\ UNCHANGED pageVars
    /\ clearScheduledFor' = ScheduledFor
    /\ UNCHANGED quitKey
    /\ UNCHANGED callVars

disconnectAlwaysClearsActive(success) == TRUE

\* The disconnectResultMsg case clears activeWifiConnection and
\* activeWifiDevice inside its "if msg.success"
disconnectClearsActive(success) == success

\* case disconnectResultMsg
HandleDisconnectResultMsg ==
    /\ running
    /\ isLoading' = FALSE
    /\ state' = "NetworksList"
    /\ \E c \in InFlight("disconnectWifi") :
          /\ \E success \in BOOLEAN :
                /\ lastMsg' = ConnMsg("disconnectResultMsg", c.id, success, FALSE, 0)
                /\ connectionStatusMsg' = IF success THEN Status("Disconnected from", c.id)
                                          ELSE Status("Error disconnecting", EmptyStr)
                /\ IF disconnectClearsActive(success)
                   THEN activeWifiConnection' = <<>> /\ activeWifiDevice' = EmptyStr
                   ELSE UNCHANGED <<activeWifiConnection, activeWifiDevice>>
          /\ HasRoom(Answered(c), <<fetchKnownNetworksCmd, fetchWifiNetworksCmd(TRUE),
                                    clearStatusAfterDelay>>)
          /\ pending' = Batch(Answered(c), <<fetchKnownNetworksCmd, fetchWifiNetworksCmd(TRUE),
                                             clearStatusAfterDelay>>)
    /\ UNCHANGED <<previousState, selectedAP, listVars, filterVars, wifiEnabled, knownProfiles,
                   allScannedAps, showHiddenNetworks, isScanning, running, histVars,
                   passwordInput, lastConnectionWasSuccessful>>
    /\ UNCHANGED pageVars
    /\ clearScheduledFor' = ScheduledFor
    /\ UNCHANGED quitKey
    /\ UNCHANGED callVars

forgetRefreshOfNetworksList(current) ==
    <<fetchKnownNetworksCmd, fetchWifiNetworksCmd(TRUE)>>

\* The refresh the forgetNetworkResultMsg case dispatches for the state it
\* has returned to
forgetRefresh(current) ==
    IF current = "KnownNetworksList" THEN <<fetchKnownWifiApsCmd>>
    ELSE <<fetchKnownNetworksCmd, fetchWifiNetworksCmd(TRUE)>>

\* case forgetNetworkResultMsg
HandleForgetNetworkResultMsg ==
    /\ running
    /\ isLoading' = FALSE
    /\ state' = previousState
    /\ \E c \in InFlight("forgetNetwork") :
          /\ \/ /\ lastMsg' = ConnMsg("forgetNetworkResultMsg", c.ssid, TRUE, FALSE, 0)
                /\ connectionStatusMsg' = Status("Forgot network", c.ssid)
                /\ knownProfiles' = MapDelete(knownProfiles, c.ssid)
             \/ /\ lastMsg' = ConnMsg("forgetNetworkResultMsg", c.ssid, FALSE, FALSE, 0)
                /\ connectionStatusMsg' = Status("Error forgetting network", EmptyStr)
                /\ UNCHANGED knownProfiles
          /\ LET cmds == forgetRefresh(state') \o <<clearStatusAfterDelay>>
             IN  /\ HasRoom(Answered(c), cmds)
                 /\ pending' = Batch(Answered(c), cmds)
    /\ UNCHANGED <<previousState, selectedAP, listVars, filterVars, wifiEnabled,
                   activeWifiConnection, activeWifiDevice, allScannedAps, showHiddenNetworks,
                   isScanning, running, histVars, passwordInput, lastConnectionWasSuccessful>>
    /\ UNCHANGED pageVars
    /\ clearScheduledFor' = ScheduledFor
    /\ UNCHANGED quitKey
    /\ UNCHANGED callVars

\* filterMaxLength, the CharLimit of the filter input
filterMaxLength == 100

\* A tea.KeyMsg other than text for the filter input reaches Update; at most
\* MaxKeys do
KeyPressed == running /\ keysHandled < MaxKeys /\ keysHandled' = keysHandled + 1

\* The keys of the Quit binding
QuitKeys == { "q", "ctrl+c" }

\* Quit, matched before any view's handler
KeyQuit ==
    /\ KeyPressed
    /\ running' = FALSE
    /\ UNCHANGED <<viewVars, listVars, filterVars, netVars, flagVars, pending,
                   beforeFilter>>
    /\ UNCHANGED connVars
    /\ UNCHANGED pageVars
    /\ clearScheduledFor' = ScheduledFor
    /\ quitKey' \in QuitKeys
    /\ UNCHANGED callVars

\* handleNetworksListKeys in filter mode, Back ("esc")
KeyFilterBack ==
    /\ KeyPressed /\ state = "NetworksList" /\ isFiltering
    /\ isFiltering' = FALSE
    /\ filterQuery' = EmptyStr
    /\ filterInput' = EmptyStr
    /\ connectionStatusMsg' = NoStatus
    /\ \E r \in applyFilterAndUpdateList(allScannedAps, knownProfiles, activeWifiConnection,
                                         showHiddenNetworks, EmptyStr) :
           /\ wifiList' = r.items
           /\ wifiListTitle' = r.title
    /\ beforeFilter' = <<>>
    /\ UNCHANGED <<state, previousState, selectedAP, netVars, flagVars, pending, running>>
    /\ UNCHANGED connVars
    /\ UNCHANGED pageVars
    /\ clearScheduledFor' = ScheduledFor
    /\ UNCHANGED quitKey
    /\ UNCHANGED callVars

KeyFilterEnterClearing ==
    /\ KeyPressed /\ state = "NetworksList" /\ isFiltering
    /\ isFiltering' = FALSE
    /\ connectionStatusMsg' = NoStatus
    /\ beforeFilter' = <<>>
    /\ filterQuery' = EmptyStr
    /\ UNCHANGED <<state, previousState, selectedAP, listVars, filterInput,
                   netVars, flagVars, pending, running>>
    /\ UNCHANGED connVars
    /\ UNCHANGED pageVars
    /\ clearScheduledFor' = ScheduledFor
    /\ UNCHANGED quitKey
    /\ UNCHANGED callVars

\* handleNetworksListKeys in filter mode, "enter"
KeyFilterEnter ==
    /\ KeyPressed /\ state = "NetworksList" /\ isFiltering
    /\ isFiltering' = FALSE
    /\ connectionStatusMsg' = NoStatus
    /\ beforeFilter' = <<>>
    /\ UNCHANGED <<state, previousState, selectedAP, listVars, filterInput, filterQuery,
                   netVars, flagVars, pending, running>>
    /\ UNCHANGED connVars
    /\ UNCHANGED pageVars
    /\ clearScheduledFor' = ScheduledFor
    /\ UNCHANGED quitKey
    /\ UNCHANGED callVars

\* textinput.Update: a typed character is appended below the CharLimit,
\* backspace deletes the last character
FilterInputUpdate(value, key) ==
    IF key.type = "runes"
    THEN IF Len(value) < filterMaxLength THEN Append(value, key.rune) ELSE value
    ELSE IF key.type = "backspace" /\ Len(value) > 0 THEN SubSeq(value, 1, Len(value) - 1)
    ELSE value

\* handleNetworksListKeys in filter mode, any other key
KeyFilterInput ==
    /\ running /\ state = "NetworksList" /\ isFiltering
    /\ \E key \in FilterKeys :
          /\ key.type = "runes" => Len(filterInput) < MaxFilterLen
          /\ filterInput' = FilterInputUpdate(filterInput, key)
    /\ filterQuery' = filterInput'
    /\ \E r \in applyFilterAndUpdateList(allScannedAps, knownProfiles, activeWifiConnection,
                                         showHiddenNetworks, filterQuery') :
           /\ wifiList' = r.items
           /\ wifiListTitle' = r.title
    /\ UNCHANGED <<viewVars, isFiltering, netVars, flagVars, pending, running, histVars>>
    /\ UNCHANGED connVars
    /\ UNCHANGED pageVars
    /\ clearScheduledFor' = ScheduledFor
    /\ UNCHANGED quitKey
    /\ UNCHANGED callVars

\* handleNetworksListKeys outside filter mode: reached
ListKeysHandled ==
    KeyPressed /\ state = "NetworksList" /\ ~isFiltering /\ ~(isLoading /\ ~isScanning)

\* handleNetworksListKeys outside filter mode while an operation is loading
KeyWhileLoading ==
    /\ KeyPressed /\ state = "NetworksList" /\ ~isFiltering
    /\ isLoading /\ ~isScanning
    /\ UNCHANGED <<viewVars, listVars, filterVars, netVars, flagVars, pending, running,
                   beforeFilter>>
    /\ UNCHANGED connVars
    /\ UNCHANGED pageVars
    /\ clearScheduledFor' = ScheduledFor
    /\ UNCHANGED quitKey
    /\ UNCHANGED callVars

\* Back ("esc") on the list
KeyBack ==
    /\ ListKeysHandled
    /\ IF filterQuery # EmptyStr
       THEN /\ filterQuery' = EmptyStr
            /\ filterInput' = EmptyStr
            /\ connectionStatusMsg' = NoStatus
            /\ \E r \in applyFilterAndUpdateList(allScannedAps, knownProfiles,
                                                 activeWifiConnection, showHiddenNetworks,
                                                 EmptyStr) :
                   /\ wifiList' = r.items
                   /\ wifiListTitle' = r.title
       ELSE UNCHANGED <<filterQuery, filterInput, connectionStatusMsg, listVars>>
    /\ UNCHANGED <<state, previousState, selectedAP, isFiltering, netVars, flagVars, pending,
                   running, beforeFilter>>
    /\ UNCHANGED connVars
    /\ UNCHANGED pageVars
    /\ clearScheduledFor' = ScheduledFor
    /\ UNCHANGED quitKey
    /\ UNCHANGED callVars

\* ToggleHidden ("u")
KeyToggleHidden ==
    /\ ListKeysHandled
    /\ showHiddenNetworks' = ~showHiddenNetworks
    /\ \E r \in applyFilterAndUpdateList(allScannedAps, knownProfiles, activeWifiConnection,
                                         showHiddenNetworks', filterQuery) :
           /\ wifiList' = r.items
           /\ wifiListTitle' = r.title
    /\ connectionStatusMsg' = IF showHiddenNetworks' THEN Status("Showing unnamed networks", EmptyStr)
                              ELSE Status("Hiding unnamed networks", EmptyStr)
    /\ HasRoom(pending, <<clearStatusAfterDelay>>)
    /\ pending' = Batch(pending, <<clearStatusAfterDelay>>)
    /\ UNCHANGED <<state, previousState, selectedAP, filterVars, netVars, isLoading, isScanning,
                   running, beforeFilter>>
    /\ UNCHANGED connVars
    /\ UNCHANGED pageVars
    /\ clearScheduledFor' = ScheduledFor
    /\ UNCHANGED quitKey
    /\ UNCHANGED callVars

\* Filter ("/")
KeyFilter ==
    /\ ListKeysHandled
    /\ isFiltering' = TRUE
    /\ filterInput' = filterQuery
    /\ connectionStatusMsg' = Status("Type to filter", EmptyStr)
    /\ beforeFilter' = IF filterQuery = EmptyStr
                       THEN << [items |-> wifiList, allScannedAps |-> allScannedAps,
                                knownProfiles |-> knownProfiles,
                                activeWifiConnection |-> activeWifiConnection,
                                showHiddenNetworks |-> showHiddenNetworks] >>
                       ELSE <<>>
    /\ UNCHANGED <<state, previousState, selectedAP, listVars, filterQuery, netVars, flagVars,
                   pending, running>>
    /\ UNCHANGED connVars
    /\ UNCHANGED pageVars
    /\ clearScheduledFor' = ScheduledFor
    /\ UNCHANGED quitKey
    /\ UNCHANGED callVars

\* Refresh ("r")
KeyRefresh ==
    /\ ListKeysHandled
    /\ isLoading' = TRUE
    /\ isScanning' = TRUE
    /\ connectionStatusMsg' = NoStatus
    /\ filterQuery' = EmptyStr
    /\ isFiltering' = FALSE
    /\ filterInput' = EmptyStr
    /\ wifiListTitle' = PlainTitle("Refreshing...")
    /\ HasRoom(pending, <<fetchKnownNetworksCmd, fetchWifiNetworksCmd(TRUE)>>)
    /\ pending' = Batch(pending, <<fetchKnownNetworksCmd, fetchWifiNetworksCmd(TRUE)>>)
    /\ UNCHANGED <<state, previousState, selectedAP, wifiList, netVars, showHiddenNetworks,
                   running, beforeFilter>>
    /\ UNCHANGED connVars
    /\ UNCHANGED pageVars
    /\ clearScheduledFor' = ScheduledFor
    /\ UNCHANGED quitKey
    /\ UNCHANGED callVars

\* ToggleWifi ("t")
KeyToggleWifi ==
    /\ ListKeysHandled
    /\ isLoading' = TRUE
    /\ connectionStatusMsg' = IF ~wifiEnabled THEN Status("Toggling Wi-Fi ON", EmptyStr)
                              ELSE Status("Toggling Wi-Fi OFF", EmptyStr)
    /\ HasRoom(pending, <<toggleWifiCmd(~wifiEnabled)>>)
    /\ pending' = Batch(pending, <<toggleWifiCmd(~wifiEnabled)>>)
    /\ UNCHANGED <<state, previousState, selectedAP, listVars, filterVars, netVars,
                   showHiddenNetworks, isScanning, running, beforeFilter>>
    /\ UNCHANGED connVars
    /\ UNCHANGED pageVars
    /\ clearScheduledFor' = ScheduledFor
    /\ UNCHANGED quitKey
    /\ UNCHANGED callVars

\* Disconnect ("d")
KeyDisconnect ==
    /\ ListKeysHandled
    /\ IF activeWifiConnection # <<>>
       THEN /\ selectedAP' = [ZeroAP EXCEPT !.SSID = GetSSIDFromProfile(activeWifiConnection[1]),
                                            !.IsActive = TRUE, !.IsKnown = TRUE,
                                            !.Interface = activeWifiDevice]
            /\ state' = "ConfirmDisconnect"
            /\ connectionStatusMsg' = NoStatus
            /\ UNCHANGED pending
       ELSE /\ connectionStatusMsg' = Status("Not connected to any network", EmptyStr)
            /\ HasRoom(pending, <<clearStatusAfterDelay>>)
            /\ pending' = Batch(pending, <<clearStatusAfterDelay>>)
            /\ UNCHANGED <<selectedAP, state>>
    /\ UNCHANGED <<previousState, listVars, filterVars, netVars, flagVars, running, beforeFilter>>
    /\ UNCHANGED connVars
    /\ UNCHANGED pageVars
    /\ clearScheduledFor' = ScheduledFor
    /\ UNCHANGED quitKey
    /\ UNCHANGED callVars

\* Forget ("ctrl+f"); the selected item is any item of the list
KeyForget ==
    /\ ListKeysHandled
    /\ IF wifiList = <<>> THEN UNCHANGED <<viewVars, pending>>
       ELSE \E i \in 1..Len(wifiList) :
               IF wifiList[i].IsKnown
               THEN /\ selectedAP' = wifiList[i]
                    /\ previousState' = state
                    /\ state' = "ConfirmForget"
                    /\ connectionStatusMsg' = NoStatus
                    /\ UNCHANGED pending
               ELSE /\ connectionStatusMsg' = Status("is not a known network",
                                                     DisplaySSID(wifiList[i]))
                    /\ HasRoom(pending, <<clearStatusAfterDelay>>)
                    /\ pending' = Batch(pending, <<clearStatusAfterDelay>>)
                    /\ UNCHANGED <<selectedAP, previousState, state>>
    /\ UNCHANGED <<listVars, filterVars, netVars, flagVars, running, beforeFilter>>
    /\ UNCHANGED connVars
    /\ UNCHANGED pageVars
    /\ clearScheduledFor' = ScheduledFor
    /\ UNCHANGED quitKey
    /\ UNCHANGED callVars

\* getProfileIdentifier: UUID, else connection name, else SSID
getProfileIdentifier(ap) ==
    IF ap.UUID # EmptyStr THEN ap.UUID
    ELSE IF ap.NAME # EmptyStr THEN ap.NAME
    ELSE SSID(ap)

\* getActiveConnectionProfileID
getActiveConnectionProfileID(activeConn, selected) ==
    IF activeConn # <<>>
    THEN IF activeConn[1].UUID # EmptyStr THEN activeConn[1].UUID
         ELSE IF activeConn[1].NAME # EmptyStr THEN activeConn[1].NAME
         ELSE GetSSIDFromProfile(activeConn[1])
    ELSE IF selected.IsActive THEN getProfileIdentifier(selected)
    ELSE EmptyStr

identifierNeverUnresolved(profileID) == FALSE

\* The test 'profileID == ""' of handleConfirmDisconnectKeys and of
\* handleConfirmForgetKeys
identifierUnresolved(profileID) == profileID = EmptyStr

\* handleConfirmDisconnectKeys, Connect ("enter")
KeyConfirmDisconnectConnect ==
    /\ KeyPressed /\ state = "ConfirmDisconnect"
    /\ LET profileID == getActiveConnectionProfileID(activeWifiConnection, selectedAP)
       IN  IF identifierUnresolved(profileID)
           THEN /\ connectionStatusMsg' = Status("Cannot identify connection to disconnect",
                                                 EmptyStr)
                /\ isLoading' = FALSE
                /\ state' = "NetworksList"
                /\ HasRoom(pending, <<clearStatusAfterDelay>>)
                /\ pending' = Batch(pending, <<clearStatusAfterDelay>>)
           ELSE /\ connectionStatusMsg' = Status("Disconnecting from", DisplaySSID(selectedAP))
                /\ isLoading' = TRUE
                /\ CopiesIn(disconnectWifiCmd(profileID), pending) < MaxRepeats
                /\ pending' = Batch(pending, <<disconnectWifiCmd(profileID)>>)
                /\ UNCHANGED state
    /\ UNCHANGED <<previousState, selectedAP, listVars, filterVars, netVars, showHiddenNetworks,
                   isScanning, running, beforeFilter>>
    /\ UNCHANGED connVars
    /\ UNCHANGED pageVars
    /\ clearScheduledFor' = ScheduledFor
    /\ UNCHANGED quitKey
    /\ UNCHANGED callVars

\* handleConfirmDisconnectKeys, Back ("esc")
KeyConfirmDisconnectBack ==
    /\ KeyPressed /\ state = "ConfirmDisconnect"
    /\ state' = "NetworksList"
    /\ connectionStatusMsg' = NoStatus
    /\ UNCHANGED <<previousState, selectedAP, listVars, filterVars, netVars, flagVars, pending,
                   running, beforeFilter>>
    /\ UNCHANGED connVars
    /\ UNCHANGED pageVars
    /\ clearScheduledFor' = ScheduledFor
    /\ UNCHANGED quitKey
    /\ UNCHANGED callVars

\* handleConfirmForgetKeys, Connect ("enter")
KeyConfirmForgetConnect ==
    /\ KeyPressed /\ state = "ConfirmForget"
    /\ LET profileID == getProfileIdentifier(selectedAP)
           ssid == DisplaySSID(selectedAP)
       IN  IF identifierUnresolved(profileID)
           THEN /\ connectionStatusMsg' = Status("Cannot identify profile for", ssid)
                /\ isLoading' = FALSE
                /\ state' = "NetworksList"
                /\ HasRoom(pending, <<clearStatusAfterDelay>>)
                /\ pending' = Batch(pending, <<clearStatusAfterDelay>>)
           ELSE /\ connectionStatusMsg' = Status("Forgetting", ssid)
                /\ isLoading' = TRUE
                /\ CopiesIn(forgetNetworkCmd(profileID, ssid), pending) < MaxRepeats
                /\ pending' = Batch(pending, <<forgetNetworkCmd(profileID, ssid)>>)
                /\ UNCHANGED state
    /\ UNCHANGED <<previousState, selectedAP, listVars, filterVars, netVars, showHiddenNetworks,
                   isScanning, running, beforeFilter>>
    /\ UNCHANGED connVars
    /\ UNCHANGED pageVars
    /\ clearScheduledFor' = ScheduledFor
    /\ UNCHANGED quitKey
    /\ UNCHANGED callVars

\* handleConfirmForgetKeys, Back ("esc")
KeyConfirmForgetBack ==
    /\ KeyPressed /\ state = "ConfirmForget"
    /\ state' = previousState
    /\ connectionStatusMsg' = NoStatus
    /\ UNCHANGED <<previousState, selectedAP, listVars, filterVars, netVars, flagVars, pending,
                   running, beforeFilter>>
    /\ UNCHANGED connVars
    /\ UNCHANGED pageVars
    /\ clearScheduledFor' = ScheduledFor
    /\ UNCHANGED quitKey
    /\ UNCHANGED callVars

\* Update, on any message or key
Next ==
    \/ HandleClearStatusMsg
    \/ HandleWifiStatusMsg
    \/ HandleKnownNetworksMsg
    \/ HandleWifiListLoadedMsg
    \/ HandleDisconnectResultMsg
    \/ HandleForgetNetworkResultMsg
    \/ KeyQuit
    \/ KeyFilterBack
    \/ KeyFilterEnter
    \/ KeyFilterInput
    \/ KeyWhileLoading
    \/ KeyBack
    \/ KeyToggleHidden
    \/ KeyFilter
    \/ KeyRefresh
    \/ KeyToggleWifi
    \/ KeyDisconnect
    \/ KeyForget
    \/ KeyConfirmDisconnectConnect
    \/ KeyConfirmDisconnectBack
    \/ KeyConfirmForgetConnect
    \/ KeyConfirmForgetBack

Spec == Init /\ [][Next]_vars

(***************************************************************************)
(* Properties of the merge                                                 *)
(***************************************************************************)

\* applyFilterAndUpdateList has run and no text filter is set: wifiList is
\* the merged list
MergedShown == wifiListTitle.kind = "Wi-Fi Networks" /\ filterQuery = EmptyStr

\* The positions of a list whose entry has SSID s
EntriesWithSSID(items, s) == { i \in 1..Len(items) : SSID(items[i]) = s }

\* The signals of the scanned APs with SSID s
ScannedSignals(s) ==
    { Signal(allScannedAps[i]) : i \in { j \in 1..Len(allScannedAps) : SSID(allScannedAps[j]) = s } }

\* The non-empty SSIDs that occur in the scanned list
ScannedSSIDs == { SSID(allScannedAps[i]) : i \in 1..Len(allScannedAps) } \ { EmptyStr }

\* C1: for every non-empty SSID s among the scanned APs the merged list has
\* exactly one entry with SSID s, and its signal is the largest signal scanned
\* for s.
DedupCorrect ==
    MergedShown =>
        \A s \in ScannedSSIDs :
            /\ Cardinality(EntriesWithSSID(wifiList, s)) = 1
            /\ \A i \in EntriesWithSSID(wifiList, s) :
                   /\ Signal(wifiList[i]) \in ScannedSignals(s)
                   /\ \A g \in ScannedSignals(s) : g <= Signal(wifiList[i])

\* C2: every key s of knownProfiles (not empty, not the placeholder) that no
\* scanned AP carries has exactly one entry in the merged list, with signal 0
\* and IsKnown, whatever showHiddenNetworks is.
KnownOutOfRangePreserved ==
    MergedShown =>
        \A s \in (DOMAIN knownProfiles) \ ({ EmptyStr, Placeholder } \cup ScannedSSIDs) :
            /\ Cardinality(EntriesWithSSID(wifiList, s)) = 1
            /\ \A i \in EntriesWithSSID(wifiList, s) :
                   Signal(wifiList[i]) = 0 /\ wifiList[i].IsKnown

\* C4: two evaluations of the merge on the same inputs return the same
\* sequence, whatever order the dedup map is visited in.
MergeDeterministic ==
    \A o1, o2 \in IterationOrders(allScannedAps, knownProfiles, activeWifiConnection) :
        getAllWifiItems(allScannedAps, knownProfiles, activeWifiConnection,
                        showHiddenNetworks, o1)
        = getAllWifiItems(allScannedAps, knownProfiles, activeWifiConnection,
                          showHiddenNetworks, o2)

\* applyFilterAndUpdateList has run
ListShown == wifiListTitle.kind = "Wi-Fi Networks"

\* The numeric part of the sort key: active first, known first, among known
\* in range first, higher signal first, named before hidden
SortRank(ap) ==
    << IF ap.IsActive THEN 0 ELSE 1,
       IF ap.IsKnown THEN 0 ELSE 1,
       IF ap.IsKnown /\ ~(Signal(ap) > 0) THEN 1 ELSE 0,
       0 - Signal(ap),
       IF IsHidden(ap) THEN 1 ELSE 0 >>

\* The first position where two ranks differ, 0 if none
FirstDifference(r, t) ==
    IF \A k \in 1..Len(r) : r[k] = t[k] THEN 0
    ELSE CHOOSE k \in 1..Len(r) : r[k] # t[k] /\ \A l \in 1..(k - 1) : r[l] = t[l]

\* a is not worse than b under the lexicographic key, whose last component is
\* the lower-cased display SSID
NotWorse(a, b) ==
    LET k == FirstDifference(SortRank(a), SortRank(b))
    IN  IF k # 0 THEN SortRank(a)[k] < SortRank(b)[k]
        ELSE ~StrLess(ToLower(DisplaySSID(b)), ToLower(DisplaySSID(a)))

\* C5: in the list the merge produces, an entry placed before another is not
\* worse than it under the key (active, known, in range among known, signal
\* descending, named before hidden, lower-cased SSID ascending).
SortedByKey ==
    ListShown =>
        \A i, j \in 1..Len(wifiList) : i < j => NotWorse(wifiList[i], wifiList[j])

\* The hidden scanned APs that are distinct: one per BSSID, and each AP
\* without BSSID apart
DistinctHiddenScanned ==
    { <<allScannedAps[i].BSSID, IF allScannedAps[i].BSSID = EmptyStr THEN i ELSE 0>> :
        i \in { j \in 1..Len(allScannedAps) : IsHidden(allScannedAps[j]) } }

\* C6: with showHiddenNetworks the merged list has one hidden entry for each
\* distinct hidden scanned AP (an entry from a profile is known, a scanned
\* hidden one never is).
HiddenNeverCollapsed ==
    (MergedShown /\ showHiddenNetworks) =>
        Cardinality({ i \in 1..Len(wifiList) : IsHidden(wifiList[i]) /\ ~wifiList[i].IsKnown })
        = Cardinality(DistinctHiddenScanned)

\* q occurs in s when letter case is ignored
OccursIgnoringCase(s, q) ==
    \E i \in 0..(Len(s) - Len(q)) :
        \A k \in 1..Len(q) : LowerByte(s[i + k]) = LowerByte(q[k])

\* The entries of a list whose display SSID holds q, in the list's order
MatchingEntries(items, q) ==
    SelectSeq(items, LAMBDA ap : OccursIgnoringCase(DisplaySSID(ap), q))

\* C8: the list shown is the merged list when filterQuery is empty, and
\* otherwise the subsequence of the merged list whose display SSID holds
\* filterQuery, letter case ignored.
FilterIsSubsequence ==
    ListShown =>
        \E order \in IterationOrders(allScannedAps, knownProfiles, activeWifiConnection) :
            LET merged == getAllWifiItems(allScannedAps, knownProfiles, activeWifiConnection,
                                          showHiddenNetworks, order)
            IN  wifiList = IF filterQuery = EmptyStr THEN merged
                           ELSE MatchingEntries(merged, filterQuery)

\* The active connection is set and its SSID is neither scanned nor a key of
\* knownProfiles
StaleActive ==
    /\ activeWifiConnection # <<>>
    /\ ProfileSSIDOrName(activeWifiConnection[1]) \notin (ScannedSSIDs \cup DOMAIN knownProfiles)

\* C10: with a stale active connection the merge marks no entry active and
\* returns what it returns without an active connection.
StaleActiveIgnored ==
    StaleActive =>
        /\ ListShown => \A i \in 1..Len(wifiList) : ~wifiList[i].IsActive
        /\ \A order \in IterationOrders(allScannedAps, knownProfiles, activeWifiConnection) :
               getAllWifiItems(allScannedAps, knownProfiles, activeWifiConnection,
                               showHiddenNetworks, order)
               = getAllWifiItems(allScannedAps, knownProfiles, <<>>,
                                 showHiddenNetworks, order)

\* Reachable case of C5: an active entry with the weaker signal is first, a
\* known entry out of range second, an unknown entry with the stronger signal last
SortedByKeyWitness ==
    /\ ListShown
    /\ Len(wifiList) = 3
    /\ wifiList[1].IsActive /\ Signal(wifiList[1]) < Signal(wifiList[3])
    /\ wifiList[2].IsKnown /\ ~wifiList[2].IsActive /\ Signal(wifiList[2]) = 0
    /\ ~wifiList[3].IsKnown

\* Reachable case of C8: a filter that keeps some entries and drops others,
\* and keeps an entry whose SSID matches in another letter case only
FilterIsSubsequenceWitness ==
    /\ ListShown
    /\ filterQuery # EmptyStr
    /\ wifiListTitle.filtered # <<>>
    /\ 0 < wifiListTitle.filtered[1]
    /\ wifiListTitle.filtered[1] < wifiListTitle.filtered[2]
    /\ \E i \in 1..Len(wifiList) : ~Contains(DisplaySSID(wifiList[i]), filterQuery)

\* Reachable case of C10: the merge has run with a stale active connection
\* and the list has known entries
StaleActiveIgnoredWitness ==
    /\ StaleActive
    /\ ListShown
    /\ KnownCount(wifiList) >= 2

(***************************************************************************)
(* Properties of the session                                               *)
(***************************************************************************)

\* The number of entries marked active
ActiveCount(items) == Cardinality({ i \in 1..Len(items) : items[i].IsActive })

\* C3: the list shown, and every list the merge returns for the current
\* fields, has at most one entry marked active.
AtMostOneActive ==
    /\ ActiveCount(wifiList) <= 1
    /\ \A r \in applyFilterAndUpdateList(allScannedAps, knownProfiles, activeWifiConnection,
                                         showHiddenNetworks, EmptyStr) :
           ActiveCount(r.items) <= 1

\* Reachable case of C3: a list with two known entries, one of them active,
\* and an unknown entry
AtMostOneActiveWitness ==
    /\ ActiveCount(wifiList) = 1
    /\ KnownCount(wifiList) = 2
    /\ Len(wifiList) = 3

\* C7: while showHiddenNetworks is false, the list shown, and every list the
\* merge returns for the current fields, has no entry with an empty or
\* placeholder SSID.
HiddenSuppressed ==
    ~showHiddenNetworks =>
        /\ \A i \in 1..Len(wifiList) : ~IsHidden(wifiList[i])
        /\ \A r \in applyFilterAndUpdateList(allScannedAps, knownProfiles,
                                             activeWifiConnection, FALSE, EmptyStr) :
               \A i \in 1..Len(r.items) : ~IsHidden(r.items[i])

\* Reachable case of C7: hidden networks were shown and are hidden again, a
\* hidden AP is among the scanned ones and the list is not empty
HiddenSuppressedWitness ==
    /\ ~showHiddenNetworks
    /\ connectionStatusMsg = Status("Hiding unnamed networks", EmptyStr)
    /\ \E i \in 1..Len(allScannedAps) : IsHidden(allScannedAps[i])
    /\ wifiList # <<>>

\* C9: when Escape leaves filter mode after text was typed, and the scanned
\* APs, the known profiles, the active connection and showHiddenNetworks are
\* what they were when filter mode was entered with no filter set and with the
\* merge of these inputs on display, the list shown is the list that was shown
\* then, and filterQuery is empty.
FilterRoundTrip ==
    [][ ( /\ isFiltering /\ ~isFiltering'
          /\ filterInput # EmptyStr /\ filterInput' = EmptyStr
          /\ beforeFilter # <<>>
          /\ beforeFilter[1].allScannedAps = allScannedAps
          /\ beforeFilter[1].knownProfiles = knownProfiles
          /\ beforeFilter[1].activeWifiConnection = activeWifiConnection
          /\ beforeFilter[1].showHiddenNetworks = showHiddenNetworks
          /\ \E r \in applyFilterAndUpdateList(allScannedAps, knownProfiles,
                                               activeWifiConnection, showHiddenNetworks,
                                               EmptyStr) :
                 r.items = beforeFilter[1].items )
        => ( filterQuery' = EmptyStr /\ wifiList' = beforeFilter[1].items ) ]_vars

(***************************************************************************)
(* Refresh results in either order                                         *)
(***************************************************************************)

\* The fields a refresh result writes and the list it shows
RefreshFields(known, activeConn, scanned, items) ==
    [knownProfiles |-> known, activeWifiConnection |-> activeConn,
     allScannedAps |-> scanned, wifiList |-> items]

\* case knownNetworksMsg without error, on the fields f: the fields it can leave
AfterKnownNetworksMsg(f, msg) ==
    IF Len(f.allScannedAps) > 0
    THEN { RefreshFields(msg.knownProfiles, msg.activeWifiConnection, f.allScannedAps, r.items) :
             r \in applyFilterAndUpdateList(f.allScannedAps, msg.knownProfiles,
                                            msg.activeWifiConnection, showHiddenNetworks,
                                            filterQuery) }
    ELSE { RefreshFields(msg.knownProfiles, msg.activeWifiConnection, f.allScannedAps,
                         f.wifiList) }

\* case wifiListLoadedMsg without error, on the fields f: the fields it can leave
AfterWifiListLoadedMsg(f, allAps) ==
    IF Len(allAps) > 0
    THEN { RefreshFields(f.knownProfiles, f.activeWifiConnection, allAps, r.items) :
             r \in applyFilterAndUpdateList(allAps, f.knownProfiles, f.activeWifiConnection,
                                            showHiddenNetworks, filterQuery) }
    ELSE { f }

\* The fields after the known-profiles result, then the scan result
KnownThenScan(f, msg, allAps) ==
    UNION { AfterWifiListLoadedMsg(g, allAps) : g \in AfterKnownNetworksMsg(f, msg) }

\* The fields after the scan result, then the known-profiles result
ScanThenKnown(f, msg, allAps) ==
    UNION { AfterKnownNetworksMsg(g, msg) : g \in AfterWifiListLoadedMsg(f, allAps) }

\* The session's fields
CurrentFields ==
    RefreshFields(knownProfiles, activeWifiConnection, allScannedAps, wifiList)

\* C11: from the current state, a successful known-profiles result and a
\* successful scan result handled in either order leave one and the same
\* knownProfiles, active connection, allScannedAps and list shown.
RefreshOrderIndependent ==
    \A listing \in ProfileListings : \A allAps \in ScanResults :
        LET msg == FetchKnownNetworks(listing[1], listing[2])
        IN  Cardinality(KnownThenScan(CurrentFields, msg, allAps)
                        \cup ScanThenKnown(CurrentFields, msg, allAps)) = 1

(***************************************************************************)
(* Connecting: the Connect key on the list, the open-network confirmation, *)
(* the password prompt, the attempt's result and its timeout.              *)
(***************************************************************************)

\* passwordMaxLength, the CharLimit of the password input
passwordMaxLength == 63

\* At most this many characters are typed into the password input
MaxPasswordLen == 1

\* connectToWifiCmd(ssid, password, knownNoPsk), dispatched by key press seq
connectToWifiCmd(ssid, password, knownNoPsk, seq) ==
    [Cmd("connectToWifi", password, ssid, knownNoPsk) EXCEPT !.seq = seq]

\* connectionTimeoutCmd(ssid), dispatched by key press seq
connectionTimeoutCmd(ssid, seq) ==
    [Cmd("connectionTimeout", EmptyStr, ssid, FALSE) EXCEPT !.seq = seq]

\* A variant of the attempt below that dispatches nothing
StartAttemptWithoutCommands(ap, password, knownNoPsk) ==
    /\ isLoading' = TRUE
    /\ state' = "Connecting"
    /\ connectionStatusMsg' = Status("Connecting to", DisplaySSID(ap))
    /\ pending' = pending

\* The attempt every connect site starts: isLoading, viewConnecting, the
\* status, and the connect command batched with its timer
StartAttempt(ap, password, knownNoPsk) ==
    /\ isLoading' = TRUE
    /\ state' = "Connecting"
    /\ connectionStatusMsg' = Status("Connecting to", DisplaySSID(ap))
    /\ pending' = Batch(pending, <<connectToWifiCmd(SSID(ap), password, knownNoPsk,
                                                    keysHandled'),
                                   connectionTimeoutCmd(SSID(ap), keysHandled')>>)

\* A variant of the choice below that connects to an open network at once
BranchOpenConnectsDirectly(ap) ==
    IF ap.IsActive THEN "ConfirmDisconnect"
    ELSE IF ap.IsKnown \/ IsOpen(ap) THEN "Connecting"
    ELSE "PasswordInput"

\* A variant of the choice below that asks for confirmation for every
\* network that is not known
BranchConfirmsUnknown(ap) ==
    IF ap.IsActive THEN "ConfirmDisconnect"
    ELSE IF ~ap.IsKnown THEN "ConfirmOpenNetwork"
    ELSE "Connecting"

\* A variant of the choice below that tests IsActive last
BranchActiveLast(ap) ==
    IF IsOpen(ap) /\ ~ap.IsKnown THEN "ConfirmOpenNetwork"
    ELSE IF ap.IsKnown \/ IsOpen(ap) THEN "Connecting"
    ELSE IF ap.IsActive THEN "ConfirmDisconnect"
    ELSE "PasswordInput"

\* A variant of the choice below that asks for the password of every secured
\* network
BranchPasswordForSecured(ap) ==
    IF ap.IsActive THEN "ConfirmDisconnect"
    ELSE IF IsOpen(ap) /\ ~ap.IsKnown THEN "ConfirmOpenNetwork"
    ELSE IF IsOpen(ap) THEN "Connecting"
    ELSE "PasswordInput"

\* initiateConnection's choice among its four ways on: the view state it sets
initiateConnectionBranch(ap) ==
    IF ap.IsActive THEN "ConfirmDisconnect"
    ELSE IF IsOpen(ap) /\ ~ap.IsKnown THEN "ConfirmOpenNetwork"
    ELSE IF ap.IsKnown \/ IsOpen(ap) THEN "Connecting"
    ELSE "PasswordInput"

\* initiateConnection
initiateConnection(ap) ==
    LET branch == initiateConnectionBranch(ap)
    IN  /\ branch = "ConfirmDisconnect" =>
              /\ state' = "ConfirmDisconnect"
              /\ UNCHANGED <<connectionStatusMsg, isLoading, pending, connVars>>
        /\ branch = "ConfirmOpenNetwork" =>
              /\ state' = "ConfirmOpenNetwork"
              /\ connectionStatusMsg' = NoStatus
              /\ UNCHANGED <<isLoading, pending, connVars>>
        /\ branch = "Connecting" =>
              /\ StartAttempt(ap, EmptyStr, ap.IsKnown)
              /\ UNCHANGED connVars
        /\ branch = "PasswordInput" =>
              /\ state' = "PasswordInput"
              /\ passwordInput' = TextInput(EmptyStr, TRUE)
              /\ connectionStatusMsg' = NoStatus
              /\ UNCHANGED <<isLoading, pending, lastConnectionWasSuccessful, lastMsg>>

\* handleNetworksListKeys, Connect ("enter"); the selected item is any item of
\* the list
KeyConnect ==
    /\ ListKeysHandled
    /\ IF wifiList = <<>>
       THEN UNCHANGED <<viewVars, isLoading, pending, connVars>>
       ELSE \E i \in 1..Len(wifiList) :
               /\ selectedAP' = wifiList[i]
               /\ initiateConnection(wifiList[i])
    /\ UNCHANGED <<previousState, listVars, filterVars, netVars, showHiddenNetworks,
                   isScanning, running, beforeFilter>>
    /\ UNCHANGED pageVars
    /\ clearScheduledFor' = ScheduledFor
    /\ UNCHANGED quitKey
    /\ UNCHANGED callVars

\* handleConfirmOpenNetworkKeys, Connect ("enter")
KeyConfirmOpenNetworkConnect ==
    /\ KeyPressed /\ state = "ConfirmOpenNetwork"
    /\ StartAttempt(selectedAP, EmptyStr, FALSE)
    /\ UNCHANGED <<previousState, selectedAP, listVars, filterVars, netVars,
                   showHiddenNetworks, isScanning, running, beforeFilter, connVars>>
    /\ UNCHANGED pageVars
    /\ clearScheduledFor' = ScheduledFor
    /\ UNCHANGED quitKey
    /\ UNCHANGED callVars

\* handleConfirmOpenNetworkKeys, Back ("esc")
KeyConfirmOpenNetworkBack ==
    /\ KeyPressed /\ state = "ConfirmOpenNetwork"
    /\ state' = "NetworksList"
    /\ connectionStatusMsg' = NoStatus
    /\ UNCHANGED <<previousState, selectedAP, listVars, filterVars, netVars, flagVars, pending,
                   running, beforeFilter, connVars>>
    /\ UNCHANGED pageVars
    /\ clearScheduledFor' = ScheduledFor
    /\ UNCHANGED quitKey
    /\ UNCHANGED callVars

\* handlePasswordInputKeys, Connect ("enter")
KeyPasswordConnect ==
    /\ KeyPressed /\ state = "PasswordInput"
    /\ IF passwordInput.value = EmptyStr
       THEN /\ connectionStatusMsg' = Status("Password cannot be empty", EmptyStr)
            /\ UNCHANGED <<state, isLoading, pending>>
       ELSE StartAttempt(selectedAP, passwordInput.value, FALSE)
    /\ UNCHANGED <<previousState, selectedAP, listVars, filterVars, netVars,
                   showHiddenNetworks, isScanning, running, beforeFilter, connVars>>
    /\ UNCHANGED pageVars
    /\ clearScheduledFor' = ScheduledFor
    /\ UNCHANGED quitKey
    /\ UNCHANGED callVars

\* handlePasswordInputKeys, Back ("esc")
KeyPasswordBack ==
    /\ KeyPressed /\ state = "PasswordInput"
    /\ state' = "NetworksList"
    /\ passwordInput' = TextInput(passwordInput.value, FALSE)
    /\ connectionStatusMsg' = NoStatus
    /\ UNCHANGED <<previousState, selectedAP, listVars, filterVars, netVars, flagVars, pending,
                   running, beforeFilter, lastConnectionWasSuccessful, lastMsg>>
    /\ UNCHANGED pageVars
    /\ clearScheduledFor' = ScheduledFor
    /\ UNCHANGED quitKey
    /\ UNCHANGED callVars

\* The keys typed into the password input: "p" and backspace
PasswordKeys == { Key("runes", 112), Key("backspace", 0) }

\* textinput.Update on the password input: nothing without focus, else a
\* typed character is appended below the CharLimit and backspace deletes the
\* last character
PasswordInputUpdate(input, key) ==
    IF ~input.focus THEN input
    ELSE IF key.type = "runes"
    THEN IF Len(input.value) < passwordMaxLength
         THEN TextInput(Append(input.value, key.rune), TRUE) ELSE input
    ELSE IF key.type = "backspace" /\ Len(input.value) > 0
    THEN TextInput(SubSeq(input.value, 1, Len(input.value) - 1), TRUE)
    ELSE input

\* handlePasswordInputKeys, any other key
KeyPasswordInput ==
    /\ running /\ state = "PasswordInput"
    /\ \E key \in PasswordKeys :
          /\ key.type = "runes" => Len(passwordInput.value) < MaxPasswordLen
          /\ passwordInput' = PasswordInputUpdate(passwordInput, key)
    /\ UNCHANGED <<viewVars, listVars, filterVars, netVars, flagVars, pending, running,
                   histVars, lastConnectionWasSuccessful, lastMsg>>
    /\ UNCHANGED pageVars
    /\ clearScheduledFor' = ScheduledFor
    /\ UNCHANGED quitKey
    /\ UNCHANGED callVars

\* handleKeyPress in viewConnectionResult, Connect ("enter") or Back ("esc")
KeyConnectionResultDismiss ==
    /\ KeyPressed /\ state = "ConnectionResult"
    /\ state' = "NetworksList"
    /\ connectionStatusMsg' = NoStatus
    /\ UNCHANGED <<previousState, selectedAP, listVars, filterVars, netVars, flagVars, pending,
                   running, beforeFilter, connVars>>
    /\ UNCHANGED pageVars
    /\ clearScheduledFor' = ScheduledFor
    /\ UNCHANGED quitKey
    /\ UNCHANGED callVars

\* A variant of the test below that leaves the view state out
TimeoutMatchesInAnyState(c) == SSID(selectedAP) = c.ssid

\* m.state == viewConnecting && m.selectedAP.SSID() == msg.ssid, on the message
\* of timer c
TimeoutMatches(c) == state = "Connecting" /\ SSID(selectedAP) = c.ssid

\* case connectionTimeoutMsg
HandleConnectionTimeoutMsg ==
    /\ running
    /\ \E c \in InFlight("connectionTimeout") :
          /\ pending' = Answered(c)
          /\ lastMsg' = ConnMsg("connectionTimeoutMsg", c.ssid, FALSE, FALSE, c.seq)
          /\ IF TimeoutMatches(c)
             THEN /\ isLoading' = FALSE
                  /\ state' = "ConnectionResult"
                  /\ lastConnectionWasSuccessful' = FALSE
                  /\ connectionStatusMsg' = Status("Connection timed out", c.ssid)
             ELSE UNCHANGED <<isLoading, state, lastConnectionWasSuccessful,
                              connectionStatusMsg>>
    /\ UNCHANGED <<previousState, selectedAP, listVars, filterVars, netVars,
                   showHiddenNetworks, isScanning, running, histVars, passwordInput>>
    /\ UNCHANGED pageVars
    /\ clearScheduledFor' = ScheduledFor
    /\ UNCHANGED quitKey
    /\ UNCHANGED callVars

\* A variant of the test below that asks for the password after an attempt
\* made with a password
UnflaggedAttemptFailed(c, ap) == ~c.flag /\ SSID(ap) = c.ssid

\* A variant of the test below that asks for the password after any attempt
AnyAttemptFailed(c, ap) == SSID(ap) = c.ssid

\* msg.wasKnownAttemptNoPsk && m.selectedAP.SSID() == msg.ssid, on the message
\* of command c
KnownAttemptFailed(c, ap) == c.flag /\ SSID(ap) = c.ssid

\* case connectionAttemptMsg; the attempt succeeded or failed
HandleConnectionAttemptMsg ==
    /\ running
    /\ isLoading' = FALSE
    /\ \E c \in InFlight("connectToWifi") : \E success \in BOOLEAN :
          /\ lastMsg' = ConnMsg("connectionAttemptMsg", c.ssid, success, c.flag, c.seq)
          /\ IF success
             THEN /\ state' = "ConnectionResult"
                  /\ lastConnectionWasSuccessful' = TRUE
                  /\ connectionStatusMsg' = Status("Connected to", DisplaySSID(selectedAP))
                  /\ HasRoom(Answered(c), <<fetchKnownNetworksCmd, fetchWifiNetworksCmd(FALSE)>>)
                  /\ pending' = Batch(Answered(c), <<fetchKnownNetworksCmd,
                                                     fetchWifiNetworksCmd(FALSE)>>)
                  /\ UNCHANGED passwordInput
             ELSE IF KnownAttemptFailed(c, selectedAP)
             THEN /\ state' = "PasswordInput"
                  /\ passwordInput' = TextInput(EmptyStr, TRUE)
                  /\ connectionStatusMsg' = Status("Stored credentials failed. Enter password:",
                                                   DisplaySSID(selectedAP))
                  /\ pending' = Answered(c)
                  /\ UNCHANGED lastConnectionWasSuccessful
             ELSE /\ state' = "ConnectionResult"
                  /\ lastConnectionWasSuccessful' = FALSE
                  /\ connectionStatusMsg' = Status("Failed to connect to", DisplaySSID(selectedAP))
                  /\ HasRoom(Answered(c), <<fetchKnownNetworksCmd, fetchWifiNetworksCmd(FALSE)>>)
                  /\ pending' = Batch(Answered(c), <<fetchKnownNetworksCmd,
                                                     fetchWifiNetworksCmd(FALSE)>>)
                  /\ UNCHANGED passwordInput
    /\ UNCHANGED <<previousState, selectedAP, listVars, filterVars, netVars,
                   showHiddenNetworks, isScanning, running, histVars>>
    /\ UNCHANGED pageVars
    /\ clearScheduledFor' = ScheduledFor
    /\ UNCHANGED quitKey
    /\ UNCHANGED callVars

\* A secured access point in range: "c", signal 55, "WPA2"
ApSecuredC55 == ScannedAP(<<99>>, <<122>>, <<53, 53>>, <<87, 80, 65, 50>>)

\* The scan a session has loaded before the user connects: "a" open and "c"
\* secured
ConnectScan == <<ApLowA75, ApSecuredC55>>

\* Profile "c"
ProfileC == Profile(<<99>>, <<55>>, TypeWifi, <<119>>, EmptyStr, EmptyStr)

\* What nmcli can list before the user connects: also "c" known and active,
\* and "c" known and not active
ConnectListings ==
    ProfileListings \cup { << <<ProfileC>>, <<ProfileC>> >>,
                           << <<ProfileB, ProfileC>>, <<>> >> }

\* What the password input can hold before the user connects: nothing, or
\* the "p" typed at an earlier prompt that was left with Back
EarlierPasswords == { EmptyStr, <<112>> }

\* A session that has loaded its Wi-Fi status, a profile listing and a scan,
\* and shows the merged list, with no command in flight
ConnInit ==
    \E listing \in ConnectListings : \E earlier \in EarlierPasswords :
        LET msg == FetchKnownNetworks(listing[1], listing[2])
        IN  /\ state = "NetworksList"
            /\ previousState = "NetworksList"
            /\ filterInput = EmptyStr
            /\ selectedAP = ZeroAP
            /\ connectionStatusMsg = NoStatus
            /\ wifiEnabled = TRUE
            /\ knownProfiles = msg.knownProfiles
            /\ activeWifiConnection = msg.activeWifiConnection
            /\ activeWifiDevice = msg.activeWifiDevice
            /\ allScannedAps = ConnectScan
            /\ showHiddenNetworks = FALSE
            /\ isLoading = FALSE
            /\ isScanning = FALSE
            /\ isFiltering = FALSE
            /\ filterQuery = EmptyStr
            /\ \E r \in applyFilterAndUpdateList(ConnectScan, msg.knownProfiles,
                                                 msg.activeWifiConnection, FALSE, EmptyStr) :
                   /\ wifiList = r.items
                   /\ wifiListTitle = r.title
            /\ pending = EmptyBag
            /\ running = TRUE
            /\ beforeFilter = <<>>
            /\ keysHandled = 0
            /\ passwordInput = TextInput(earlier, FALSE)
            /\ lastConnectionWasSuccessful = FALSE
            /\ lastMsg = NoMsg
            /\ knownWifiList = KnownList(<<>>, "Known Wi-Fi Profiles")
            /\ activeConnInfo = ""
            /\ clearScheduledFor = NoStatus
            /\ quitKey = ""
            /\ hiddenSSIDInput = TextInput(EmptyStr, FALSE)
            /\ gateway = NoCall

\* Update on the messages and keys of a connection
ConnNext ==
    \/ HandleClearStatusMsg
    \/ HandleKnownNetworksMsg
    \/ HandleWifiListLoadedMsg
    \/ HandleConnectionAttemptMsg
    \/ HandleConnectionTimeoutMsg
    \/ KeyQuit
    \/ KeyConnect
    \/ KeyConfirmDisconnectBack
    \/ KeyConfirmOpenNetworkConnect
    \/ KeyConfirmOpenNetworkBack
    \/ KeyPasswordConnect
    \/ KeyPasswordBack
    \/ KeyPasswordInput
    \/ KeyConnectionResultDismiss

ConnSpec == ConnInit /\ [][ConnNext]_vars

\* The same session when every connect command and every timer in flight
\* returns its message and Update handles it: the runtime runs each tea.Cmd in
\* a goroutine of its own and feeds the message it returns to Update, and a
\* tea.Tick fires once its duration has passed
ConnFairSpec ==
    /\ ConnInit
    /\ [][ConnNext]_vars
    /\ WF_vars(HandleConnectionAttemptMsg)
    /\ WF_vars(HandleConnectionTimeoutMsg)

(***************************************************************************)
(* The other pages: the active connection's details and the list of known  *)
(* profiles                                                                *)
(***************************************************************************)

fetchActiveConnInfoCmd(deviceName) == Cmd("fetchActiveConnInfo", deviceName, EmptyStr, FALSE)

\* Info ("i")
KeyInfo ==
    /\ ListKeysHandled
    /\ IF activeWifiConnection # <<>> /\ activeWifiDevice # EmptyStr
       THEN /\ state' = "ActiveConnectionInfo"
            /\ isLoading' = TRUE
            /\ activeConnInfo' = "Loading connection details..."
            /\ HasRoom(pending, <<fetchActiveConnInfoCmd(activeWifiDevice)>>)
            /\ pending' = Batch(pending, <<fetchActiveConnInfoCmd(activeWifiDevice)>>)
            /\ connectionStatusMsg' = NoStatus
       ELSE /\ connectionStatusMsg' = Status("No active connection", EmptyStr)
            /\ HasRoom(pending, <<clearStatusAfterDelay>>)
            /\ pending' = Batch(pending, <<clearStatusAfterDelay>>)
            /\ UNCHANGED <<state, isLoading, activeConnInfo>>
    /\ UNCHANGED <<previousState, selectedAP, listVars, filterVars, netVars,
                   showHiddenNetworks, isScanning, running, beforeFilter, connVars,
                   knownWifiList>>
    /\ clearScheduledFor' = ScheduledFor
    /\ UNCHANGED quitKey
    /\ UNCHANGED callVars

\* The content fetchActiveConnInfoCmd's message can lead to: for no device
\* the error, else the error, no details or the details
ActiveConnInfoResults(c) ==
    IF c.id = EmptyStr THEN { "Error" }
    ELSE { "Error", "No IP details available.", "details" }

\* case activeConnInfoMsg
HandleActiveConnInfoMsg ==
    /\ running
    /\ isLoading' = FALSE
    /\ \E c \in InFlight("fetchActiveConnInfo") :
          /\ pending' = Answered(c)
          /\ activeConnInfo' \in ActiveConnInfoResults(c)
    /\ UNCHANGED <<viewVars, listVars, filterVars, netVars, showHiddenNetworks, isScanning,
                   running, histVars, connVars, knownWifiList>>
    /\ clearScheduledFor' = ScheduledFor
    /\ UNCHANGED quitKey
    /\ UNCHANGED callVars

\* handleKeyPress in viewActiveConnectionInfo, Back ("esc")
KeyActiveConnInfoBack ==
    /\ KeyPressed /\ state = "ActiveConnectionInfo"
    /\ state' = "NetworksList"
    /\ connectionStatusMsg' = NoStatus
    /\ UNCHANGED <<previousState, selectedAP, listVars, filterVars, netVars, flagVars, pending,
                   running, beforeFilter, connVars, pageVars>>
    /\ clearScheduledFor' = ScheduledFor
    /\ UNCHANGED quitKey
    /\ UNCHANGED callVars

\* Profiles ("p")
KeyProfiles ==
    /\ ListKeysHandled
    /\ state' = "KnownNetworksList"
    /\ isLoading' = TRUE
    /\ knownWifiList' = KnownList(knownWifiList.items, "Loading...")
    /\ HasRoom(pending, <<fetchKnownWifiApsCmd>>)
    /\ pending' = Batch(pending, <<fetchKnownWifiApsCmd>>)
    /\ UNCHANGED <<previousState, selectedAP, connectionStatusMsg, listVars, filterVars,
                   netVars, showHiddenNetworks, isScanning, running, beforeFilter, connVars,
                   activeConnInfo>>
    /\ clearScheduledFor' = ScheduledFor
    /\ UNCHANGED quitKey
    /\ UNCHANGED callVars

\* The aps of the knownWifiApsListMsg fetchKnownWifiApsCmd returns for the
\* profiles nmcli lists
RECURSIVE FetchKnownWifiAps(_)
FetchKnownWifiAps(profiles) ==
    IF profiles = <<>> THEN <<>>
    ELSE IF Head(profiles).TYPE = TypeWifi
    THEN <<connectionProfileToWifiAP(Head(profiles), <<>>)>> \o FetchKnownWifiAps(Tail(profiles))
    ELSE FetchKnownWifiAps(Tail(profiles))

\* case knownWifiApsListMsg; the listing failed or returned profiles
HandleKnownWifiApsListMsg ==
    /\ running
    /\ isLoading' = FALSE
    /\ \E c \in InFlight("fetchKnownWifiAps") :
          /\ pending' = Answered(c)
          /\ \/ /\ connectionStatusMsg' = Status("Error loading profiles", EmptyStr)
                /\ knownWifiList' = KnownList(knownWifiList.items, "Error Loading Profiles")
             \/ \E listing \in ProfileListings :
                   /\ knownWifiList' = KnownList(FetchKnownWifiAps(listing[1]),
                                                 "Known Wi-Fi Profiles (n)")
                   /\ UNCHANGED connectionStatusMsg
    /\ UNCHANGED <<state, previousState, selectedAP, listVars, filterVars, netVars,
                   showHiddenNetworks, isScanning, running, histVars, connVars, activeConnInfo>>
    /\ clearScheduledFor' = ScheduledFor
    /\ UNCHANGED quitKey
    /\ UNCHANGED callVars

\* handleKnownNetworksListKeys while an operation is loading
KeyKnownListWhileLoading ==
    /\ KeyPressed /\ state = "KnownNetworksList"
    /\ isLoading
    /\ UNCHANGED <<viewVars, listVars, filterVars, netVars, flagVars, pending, running,
                   beforeFilter, connVars, pageVars>>
    /\ clearScheduledFor' = ScheduledFor
    /\ UNCHANGED quitKey
    /\ UNCHANGED callVars

\* handleKnownNetworksListKeys, Back ("esc")
KeyKnownListBack ==
    /\ KeyPressed /\ state = "KnownNetworksList"
    /\ ~isLoading
    /\ state' = "NetworksList"
    /\ connectionStatusMsg' = NoStatus
    /\ UNCHANGED <<previousState, selectedAP, listVars, filterVars, netVars, flagVars, pending,
                   running, beforeFilter, connVars, pageVars>>
    /\ clearScheduledFor' = ScheduledFor
    /\ UNCHANGED quitKey
    /\ UNCHANGED callVars

\* handleKnownNetworksListKeys, Forget ("ctrl+f"); the selected item is any
\* item of the list
KeyKnownListForget ==
    /\ KeyPressed /\ state = "KnownNetworksList"
    /\ ~isLoading
    /\ IF knownWifiList.items = <<>> THEN UNCHANGED viewVars
       ELSE \E i \in 1..Len(knownWifiList.items) :
               /\ selectedAP' = knownWifiList.items[i]
               /\ previousState' = state
               /\ state' = "ConfirmForget"
               /\ connectionStatusMsg' = NoStatus
    /\ UNCHANGED <<listVars, filterVars, netVars, flagVars, pending, running, beforeFilter,
                   connVars, pageVars>>
    /\ clearScheduledFor' = ScheduledFor
    /\ UNCHANGED quitKey
    /\ UNCHANGED callVars

\* The page a session shows before the user manages a connection
StartPages == { "NetworksList", "KnownNetworksList" }

\* A session that has loaded its Wi-Fi status, a profile listing and a scan
\* and shows the merged list or, after Profiles, the list of known profiles,
\* with no command in flight
AppInit ==
    \E listing \in ProfileListings : \E page \in StartPages :
        LET msg == FetchKnownNetworks(listing[1], listing[2])
        IN  /\ state = page
            /\ previousState = "NetworksList"
            /\ filterInput = EmptyStr
            /\ selectedAP = ZeroAP
            /\ connectionStatusMsg = NoStatus
            /\ wifiEnabled = TRUE
            /\ knownProfiles = msg.knownProfiles
            /\ activeWifiConnection = msg.activeWifiConnection
            /\ activeWifiDevice = msg.activeWifiDevice
            /\ allScannedAps = ConnectScan
            /\ showHiddenNetworks = FALSE
            /\ isLoading = FALSE
            /\ isScanning = FALSE
            /\ isFiltering = FALSE
            /\ filterQuery = EmptyStr
            /\ \E r \in applyFilterAndUpdateList(ConnectScan, msg.knownProfiles,
                                                 msg.activeWifiConnection, FALSE, EmptyStr) :
                   /\ wifiList = r.items
                   /\ wifiListTitle = r.title
            /\ pending = EmptyBag
            /\ running = TRUE
            /\ beforeFilter = <<>>
            /\ keysHandled = 0
            /\ passwordInput = TextInput(EmptyStr, FALSE)
            /\ lastConnectionWasSuccessful = FALSE
            /\ lastMsg = NoMsg
            /\ knownWifiList = IF page = "KnownNetworksList"
                               THEN KnownList(FetchKnownWifiAps(listing[1]),
                                              "Known Wi-Fi Profiles (n)")
                               ELSE KnownList(<<>>, "Known Wi-Fi Profiles")
            /\ activeConnInfo = ""
            /\ clearScheduledFor = NoStatus
            /\ quitKey = ""
            /\ hiddenSSIDInput = TextInput(EmptyStr, FALSE)
            /\ gateway = NoCall

\* Update on the messages and keys of every page but the filter and the
\* hidden-SSID prompt
AppNext ==
    \/ HandleClearStatusMsg
    \/ HandleWifiStatusMsg
    \/ HandleKnownNetworksMsg
    \/ HandleWifiListLoadedMsg
    \/ HandleConnectionAttemptMsg
    \/ HandleConnectionTimeoutMsg
    \/ HandleActiveConnInfoMsg
    \/ HandleDisconnectResultMsg
    \/ HandleForgetNetworkResultMsg
    \/ HandleKnownWifiApsListMsg
    \/ KeyQuit
    \/ KeyWhileLoading
    \/ KeyRefresh
    \/ KeyToggleWifi
    \/ KeyDisconnect
    \/ KeyForget
    \/ KeyInfo
    \/ KeyProfiles
    \/ KeyConnect
    \/ KeyConfirmDisconnectConnect
    \/ KeyConfirmDisconnectBack
    \/ KeyConfirmForgetConnect
    \/ KeyConfirmForgetBack
    \/ KeyConfirmOpenNetworkConnect
    \/ KeyConfirmOpenNetworkBack
    \/ KeyPasswordConnect
    \/ KeyPasswordBack
    \/ KeyPasswordInput
    \/ KeyConnectionResultDismiss
    \/ KeyActiveConnInfoBack
    \/ KeyKnownListWhileLoading
    \/ KeyKnownListBack
    \/ KeyKnownListForget

AppSpec == AppInit /\ [][AppNext]_vars

\* Update on every result message and on the keys that dispatch the
\* operations they answer
StartNext ==
    \/ HandleClearStatusMsg
    \/ HandleWifiStatusMsg
    \/ HandleKnownNetworksMsg
    \/ HandleWifiListLoadedMsg
    \/ HandleConnectionAttemptMsg
    \/ HandleConnectionTimeoutMsg
    \/ HandleActiveConnInfoMsg
    \/ HandleDisconnectResultMsg
    \/ HandleForgetNetworkResultMsg
    \/ HandleKnownWifiApsListMsg
    \/ KeyQuit
    \/ KeyToggleWifi
    \/ KeyDisconnect
    \/ KeyForget
    \/ KeyInfo
    \/ KeyProfiles
    \/ KeyConnect
    \/ KeyConfirmDisconnectConnect
    \/ KeyConfirmForgetConnect
    \/ KeyConfirmOpenNetworkConnect
    \/ KeyPasswordConnect

\* A session from the start of the program
StartSpec == Init /\ [][StartNext]_vars

\* The confirm dialogs a settled session can be in: ConfirmDisconnect after
\* Disconnect on the active connection, ConfirmForget after Forget on a known
\* item of the list or on an item of the list of known profiles; cmd is the
\* command Enter dispatches there
ConfirmEntries(items, knownItems, activeConn, device) ==
    LET temp == [ZeroAP EXCEPT !.SSID = IF activeConn = <<>> THEN EmptyStr
                                         ELSE GetSSIDFromProfile(activeConn[1]),
                               !.IsActive = TRUE, !.IsKnown = TRUE, !.Interface = device]
        forget(ap, from) ==
            [state |-> "ConfirmForget", previousState |-> from, selectedAP |-> ap,
             status |-> Status("Forgetting", DisplaySSID(ap)),
             cmd |-> forgetNetworkCmd(getProfileIdentifier(ap), DisplaySSID(ap))]
    IN  { [state |-> "ConfirmDisconnect", previousState |-> "NetworksList",
           selectedAP |-> temp, status |-> Status("Disconnecting from", DisplaySSID(temp)),
           cmd |-> disconnectWifiCmd(getActiveConnectionProfileID(activeConn, temp))] :
          x \in IF activeConn = <<>> THEN {} ELSE { 1 } }
        \cup { forget(items[i], "NetworksList") :
                 i \in { k \in 1..Len(items) : items[k].IsKnown } }
        \cup { forget(knownItems[i], "KnownNetworksList") : i \in 1..Len(knownItems) }

\* What nmcli lists before a confirm dialog is entered: profiles "a" (active)
\* and "b"
ConfirmListings == { << <<ProfileA, ProfileB, ProfileEth>>, <<ProfileA, ProfileEth>> >> }

\* A session in a confirm dialog, entered from a settled list or from one
\* whose rescan (Refresh) is still in flight, before Enter or after Enter has
\* dispatched the dialog's command
ConfirmInit ==
    \E listing \in ConfirmListings : \E rescan \in BOOLEAN : \E dispatched \in BOOLEAN :
        LET msg == FetchKnownNetworks(listing[1], listing[2])
            knownItems == FetchKnownWifiAps(listing[1])
        IN  /\ filterInput = EmptyStr
            /\ wifiEnabled = TRUE
            /\ knownProfiles = msg.knownProfiles
            /\ activeWifiConnection = msg.activeWifiConnection
            /\ activeWifiDevice = msg.activeWifiDevice
            /\ allScannedAps = ConnectScan
            /\ showHiddenNetworks = FALSE
            /\ isLoading = (rescan \/ dispatched)
            /\ isScanning = rescan
            /\ isFiltering = FALSE
            /\ filterQuery = EmptyStr
            /\ \E r \in applyFilterAndUpdateList(ConnectScan, msg.knownProfiles,
                                                 msg.activeWifiConnection, FALSE, EmptyStr) :
                   /\ wifiList = r.items
                   /\ wifiListTitle = r.title
            /\ \E e \in ConfirmEntries(wifiList, knownItems, msg.activeWifiConnection,
                                        msg.activeWifiDevice) :
                   /\ dispatched => e.cmd.id # EmptyStr
                   /\ state = e.state
                   /\ previousState = e.previousState
                   /\ selectedAP = e.selectedAP
                   /\ connectionStatusMsg = IF dispatched THEN e.status ELSE NoStatus
                   /\ pending = Batch(EmptyBag,
                                      (IF rescan THEN <<fetchWifiNetworksCmd(TRUE)>> ELSE <<>>)
                                      \o (IF dispatched THEN <<e.cmd>> ELSE <<>>))
                   /\ knownWifiList = IF e.previousState = "KnownNetworksList"
                                      THEN KnownList(knownItems, "Known Wi-Fi Profiles (n)")
                                      ELSE KnownList(<<>>, "Known Wi-Fi Profiles")
            /\ running = TRUE
            /\ beforeFilter = <<>>
            /\ keysHandled = 0
            /\ passwordInput = TextInput(EmptyStr, FALSE)
            /\ lastConnectionWasSuccessful = FALSE
            /\ lastMsg = NoMsg
            /\ activeConnInfo = ""
            /\ clearScheduledFor = NoStatus
            /\ quitKey = ""
            /\ hiddenSSIDInput = TextInput(EmptyStr, FALSE)
            /\ gateway = NoCall

\* Update on the keys of the confirm dialogs and of the lists they return
\* to, and on the results that can arrive meanwhile
ConfirmNext ==
    \/ HandleClearStatusMsg
    \/ HandleKnownNetworksMsg
    \/ HandleWifiListLoadedMsg
    \/ HandleDisconnectResultMsg
    \/ HandleForgetNetworkResultMsg
    \/ HandleKnownWifiApsListMsg
    \/ KeyQuit
    \/ KeyConnect
    \/ KeyConfirmDisconnectConnect
    \/ KeyConfirmDisconnectBack
    \/ KeyConfirmForgetConnect
    \/ KeyConfirmForgetBack

ConfirmSpec == ConfirmInit /\ [][ConfirmNext]_vars

(***************************************************************************)
(* The hidden network prompt: the HiddenSSID key on the list, the SSID     *)
(* input, and the arguments a connect command hands to the gateway.        *)
(***************************************************************************)

\* At most this many characters are typed into the SSID input
MaxHiddenLen == 1

\* ssidInput.CharLimit
hiddenSSIDCharLimit == 32

\* The characters unicode.IsSpace holds of in Latin-1 text: tab, newline,
\* vertical tab, form feed, carriage return and space
SpaceCodes == { 9, 10, 11, 12, 13, 32 }

\* strings.TrimSpace
RECURSIVE TrimSpace(_)
TrimSpace(s) ==
    IF s = <<>> THEN s
    ELSE IF Head(s) \in SpaceCodes THEN TrimSpace(Tail(s))
    ELSE IF s[Len(s)] \in SpaceCodes THEN TrimSpace(SubSeq(s, 1, Len(s) - 1))
    ELSE s

\* handleNetworksListKeys, HiddenSSID ("h")
KeyHiddenSSID ==
    /\ ListKeysHandled
    /\ state' = "HiddenNetworkInput"
    /\ hiddenSSIDInput' = TextInput(EmptyStr, TRUE)
    /\ connectionStatusMsg' = NoStatus
    /\ UNCHANGED <<previousState, selectedAP, listVars, filterVars, netVars, flagVars, pending,
                   running, beforeFilter, connVars, pageVars, gateway>>
    /\ clearScheduledFor' = ScheduledFor
    /\ UNCHANGED quitKey

\* The synthetic access point handleHiddenNetworkInputKeys builds for a typed
\* SSID: the SSID and no other field
HiddenAP(ssid) == ScannedAP(ssid, EmptyStr, EmptyStr, EmptyStr)

\* handleHiddenNetworkInputKeys, Connect ("enter")
KeyHiddenConnect ==
    /\ KeyPressed /\ state = "HiddenNetworkInput"
    /\ LET ssid == TrimSpace(hiddenSSIDInput.value)
       IN  IF ssid = EmptyStr
           THEN /\ connectionStatusMsg' = Status("SSID cannot be empty", EmptyStr)
                /\ UNCHANGED <<state, selectedAP, passwordInput, hiddenSSIDInput>>
           ELSE /\ selectedAP' = HiddenAP(ssid)
                /\ state' = "PasswordInput"
                /\ passwordInput' = TextInput(EmptyStr, TRUE)
                /\ hiddenSSIDInput' = TextInput(hiddenSSIDInput.value, FALSE)
                /\ connectionStatusMsg' = NoStatus
    /\ UNCHANGED <<previousState, listVars, filterVars, netVars, flagVars, pending, running,
                   beforeFilter, lastConnectionWasSuccessful, lastMsg, pageVars, gateway>>
    /\ clearScheduledFor' = ScheduledFor
    /\ UNCHANGED quitKey

\* handleHiddenNetworkInputKeys, Back ("esc")
KeyHiddenBack ==
    /\ KeyPressed /\ state = "HiddenNetworkInput"
    /\ state' = "NetworksList"
    /\ hiddenSSIDInput' = TextInput(hiddenSSIDInput.value, FALSE)
    /\ connectionStatusMsg' = NoStatus
    /\ UNCHANGED <<previousState, selectedAP, listVars, filterVars, netVars, flagVars, pending,
                   running, beforeFilter, connVars, pageVars, gateway>>
    /\ clearScheduledFor' = ScheduledFor
    /\ UNCHANGED quitKey

\* The keys typed into the SSID input: "x", space and backspace
HiddenKeys == { Key("runes", 120), Key("runes", 32), Key("backspace", 0) }

\* textinput.Update on the SSID input: nothing without focus, else a typed
\* character is appended below the CharLimit and backspace deletes the last
\* character
HiddenInputUpdate(input, key) ==
    IF ~input.focus THEN input
    ELSE IF key.type = "runes"
    THEN IF Len(input.value) < hiddenSSIDCharLimit
         THEN TextInput(Append(input.value, key.rune), TRUE) ELSE input
    ELSE IF key.type = "backspace" /\ Len(input.value) > 0
    THEN TextInput(SubSeq(input.value, 1, Len(input.value) - 1), TRUE)
    ELSE input

\* handleHiddenNetworkInputKeys, any other key
KeyHiddenInput ==
    /\ running /\ state = "HiddenNetworkInput"
    /\ \E key \in HiddenKeys :
          /\ key.type = "runes" => Len(hiddenSSIDInput.value) < MaxHiddenLen
          /\ hiddenSSIDInput' = HiddenInputUpdate(hiddenSSIDInput, key)
    /\ UNCHANGED <<viewVars, listVars, filterVars, netVars, flagVars, pending, running,
                   histVars, connVars, pageVars, gateway>>
    /\ clearScheduledFor' = ScheduledFor
    /\ UNCHANGED quitKey

\* The arguments the closure of connectToWifiCmd hands to
\* gonetworkmanager.ConnectToWifiRobustly: the SSID as the profile name, any
\* interface, the SSID, the password, and hidden = false
connectToWifiCall(c) ==
    [profileNameBase |-> c.ssid, ifname |-> "*", ssid |-> c.ssid, password |-> c.id,
     hidden |-> FALSE]

\* The arguments ConnectToWifiRobustly hands to WifiConnect
WifiConnectArgs(args) ==
    [ssid |-> args.ssid, password |-> args.password, hidden |-> args.hidden]

\* The pages a session shows before the user connects to a hidden network:
\* the list, or the SSID prompt after HiddenSSID
HiddenPages == { "NetworksList", "HiddenNetworkInput" }

\* A session that has loaded its Wi-Fi status, a profile listing and a scan
\* and shows the merged list or, after HiddenSSID, the SSID prompt, with no
\* command in flight
HiddenInit ==
    \E page \in HiddenPages :
        LET msg == FetchKnownNetworks(<<ProfileB, ProfileC>>, <<>>)
        IN  /\ state = page
            /\ previousState = "NetworksList"
            /\ filterInput = EmptyStr
            /\ selectedAP = ZeroAP
            /\ connectionStatusMsg = NoStatus
            /\ wifiEnabled = TRUE
            /\ knownProfiles = msg.knownProfiles
            /\ activeWifiConnection = msg.activeWifiConnection
            /\ activeWifiDevice = msg.activeWifiDevice
            /\ allScannedAps = ConnectScan
            /\ showHiddenNetworks = FALSE
            /\ isLoading = FALSE
            /\ isScanning = FALSE
            /\ isFiltering = FALSE
            /\ filterQuery = EmptyStr
            /\ \E r \in applyFilterAndUpdateList(ConnectScan, msg.knownProfiles,
                                                 msg.activeWifiConnection, FALSE, EmptyStr) :
                   /\ wifiList = r.items
                   /\ wifiListTitle = r.title
            /\ pending = EmptyBag
            /\ running = TRUE
            /\ beforeFilter = <<>>
            /\ keysHandled = 0
            /\ passwordInput = TextInput(EmptyStr, FALSE)
            /\ lastConnectionWasSuccessful = FALSE
            /\ lastMsg = NoMsg
            /\ knownWifiList = KnownList(<<>>, "Known Wi-Fi Profiles")
            /\ activeConnInfo = ""
            /\ clearScheduledFor = NoStatus
            /\ quitKey = ""
            /\ hiddenSSIDInput = TextInput(EmptyStr, page = "HiddenNetworkInput")
            /\ gateway = NoCall

\* Update on the messages and keys of a connection, from the list or from
\* the SSID prompt
HiddenNext ==
    \/ HandleClearStatusMsg
    \/ HandleKnownNetworksMsg
    \/ HandleWifiListLoadedMsg
    \/ HandleConnectionAttemptMsg
    \/ HandleConnectionTimeoutMsg
    \/ KeyQuit
    \/ KeyConnect
    \/ KeyHiddenSSID
    \/ KeyHiddenConnect
    \/ KeyHiddenBack
    \/ KeyHiddenInput
    \/ KeyPasswordConnect
    \/ KeyPasswordBack
    \/ KeyPasswordInput
    \/ KeyConnectionResultDismiss

HiddenSpec == HiddenInit /\ [][HiddenNext]_vars

(***************************************************************************)
(* The gateway's connect: gonetworkmanager.ConnectToWifiRobustly           *)
(* (src/unnamed/part_001) as the sequence of nmcli calls it issues.  Each  *)
(* call is one step whose outcome nmcli decides; the variable gateway      *)
(* holds the arguments, the profiles nmcli stores, the calls issued so far *)
(* and the call that comes next.                                           *)
(***************************************************************************)

\* The error texts nmcli can fail a connect with: the two the fallback looks
\* for, and any other
ErrKeyMgmt == "802-11-wireless-security.key-mgmt: property is missing"
ErrSecrets == "secrets were required"
ErrOther == "No network with SSID found"
NoErr == ""

\* What "nmcli device wifi connect" can return
ConnectErrors == { NoErr, ErrKeyMgmt, ErrSecrets, ErrOther }

\* A variant of the test below that looks at the password only
fallbackOnAnyError(password, err) == password # EmptyStr

\* ConnectToWifiRobustly: the explicit profile is tried when a password was
\* given and the error text holds one of the two signatures
fallbackWanted(password, err) ==
    password # EmptyStr /\ err \in { ErrKeyMgmt, ErrSecrets }

\* An nmcli call: the subcommand and the profile, SSID or identifier it names
Call(op, arg) == [op |-> op, arg |-> arg]

\* Profiles for the SSID "c": "c2" with SSID "c", one with a UUID and no
\* name, one with neither
ProfileC2 == Profile(<<99, 50>>, <<56>>, TypeWifi, <<119>>, <<99>>, EmptyStr)
ProfileNameless == Profile(EmptyStr, <<57>>, TypeWifi, EmptyStr, <<99>>, EmptyStr)
ProfileAnonymous == Profile(EmptyStr, EmptyStr, TypeWifi, EmptyStr, <<99>>, EmptyStr)

\* What nmcli can store before the call, in the order it lists it
StoredProfiles ==
    { <<>>, <<ProfileC>>, <<ProfileB, ProfileC2>>, <<ProfileNameless>>, <<ProfileAnonymous>> }

\* The arguments of a call: the SSID "c" or a blank one, no password, "p" or
\* a blank one, the profile name given or left empty
RobustArgs ==
    { [profileNameBase |-> base, ifname |-> "*", ssid |-> ssid, password |-> password,
       hidden |-> hidden] :
        base \in { EmptyStr, <<99>> }, ssid \in { <<99>>, <<32>> },
        password \in { EmptyStr, <<112>>, <<32>> }, hidden \in BOOLEAN }

\* The session's fields, which the gateway never touches
sessionVars ==
    <<viewVars, listVars, filterVars, netVars, flagVars, pending, running, histVars,
      connVars, pageVars, clearScheduledFor, quitKey, hiddenSSIDInput>>

\* A call of ConnectToWifiRobustly about to start, outside any session
RobustInit ==
    /\ state = "NetworksList"
    /\ previousState = "NetworksList"
    /\ wifiList = <<>>
    /\ wifiListTitle = PlainTitle("Scanning for Wi-Fi Networks...")
    /\ filterInput = EmptyStr
    /\ selectedAP = ZeroAP
    /\ connectionStatusMsg = NoStatus
    /\ wifiEnabled = FALSE
    /\ knownProfiles = <<>>
    /\ activeWifiConnection = <<>>
    /\ activeWifiDevice = EmptyStr
    /\ allScannedAps = <<>>
    /\ showHiddenNetworks = FALSE
    /\ isLoading = FALSE
    /\ isScanning = FALSE
    /\ isFiltering = FALSE
    /\ filterQuery = EmptyStr
    /\ pending = EmptyBag
    /\ running = TRUE
    /\ beforeFilter = <<>>
    /\ keysHandled = 0
    /\ passwordInput = TextInput(EmptyStr, FALSE)
    /\ lastConnectionWasSuccessful = FALSE
    /\ lastMsg = NoMsg
    /\ knownWifiList = KnownList(<<>>, "Known Wi-Fi Profiles")
    /\ activeConnInfo = ""
    /\ clearScheduledFor = NoStatus
    /\ quitKey = ""
    /\ hiddenSSIDInput = TextInput(EmptyStr, FALSE)
    /\ \E args \in RobustArgs : \E profiles \in StoredProfiles :
          gateway = [pc |-> "WifiConnect", args |-> args, profiles |-> profiles,
                     calls |-> <<>>, err |-> NoErr, target |-> EmptyStr, addErr |-> FALSE,
                     upErr |-> NoErr]

\* profileName := profileNameBase; if profileName == "" { profileName = ssid }
ProfileNameOf(args) ==
    IF args.profileNameBase = EmptyStr THEN args.ssid ELSE args.profileNameBase

\* WifiConnect, and what ConnectToWifiRobustly does with its error
RobustWifiConnect ==
    /\ gateway.pc = "WifiConnect"
    /\ IF TrimSpace(gateway.args.ssid) = EmptyStr
       THEN gateway' = [gateway EXCEPT !.err = "SSID empty for Wi-Fi connect",
                                       !.pc = "done"]
       ELSE \E err \in ConnectErrors :
               gateway' = [gateway EXCEPT
                   !.calls = Append(@, Call("device wifi connect",
                                            WifiConnectArgs(gateway.args))),
                   !.err = err,
                   !.pc = IF err # NoErr /\ fallbackWanted(gateway.args.password, err)
                          THEN "AddWifiConnectionPSK" ELSE "done"]
    /\ UNCHANGED sessionVars

\* The loop of AddWifiConnectionPSK: whether profile p is the existing one
MatchesExisting(p, profileName, ssid) ==
    \/ p.NAME = profileName
    \/ GetSSIDFromProfile(p) = ssid /\ p.TYPE = TypeWifi

\* The identifier of the first matching profile, its name or else its UUID;
\* <<>> when no profile matches, <<identifier>> otherwise
RECURSIVE ExistingProfileIdentifier(_, _, _)
ExistingProfileIdentifier(profiles, profileName, ssid) ==
    IF profiles = <<>> THEN <<>>
    ELSE IF MatchesExisting(Head(profiles), profileName, ssid)
    THEN << IF Head(profiles).NAME # EmptyStr THEN Head(profiles).NAME
            ELSE Head(profiles).UUID >>
    ELSE ExistingProfileIdentifier(Tail(profiles), profileName, ssid)

\* AddWifiConnectionPSK up to its choice: the arguments are validated, the
\* profiles are listed and the existing profile is looked for
RobustFindExisting ==
    /\ gateway.pc = "AddWifiConnectionPSK"
    /\ LET profileName == ProfileNameOf(gateway.args)
           found == ExistingProfileIdentifier(gateway.profiles, profileName,
                                              gateway.args.ssid)
       IN  IF \/ TrimSpace(profileName) = EmptyStr
              \/ TrimSpace(gateway.args.ssid) = EmptyStr
              \/ TrimSpace(gateway.args.password) = EmptyStr
           THEN gateway' = [gateway EXCEPT !.addErr = TRUE, !.pc = "done"]
           ELSE \/ gateway' = [gateway EXCEPT
                       !.calls = Append(@, Call("connection show", EmptyStr)),
                       !.addErr = TRUE, !.pc = "done"]
                \/ gateway' = [gateway EXCEPT
                       !.calls = Append(@, Call("connection show", EmptyStr)),
                       !.target = IF found = <<>> THEN EmptyStr ELSE found[1],
                       !.pc = IF found # <<>> /\ found[1] # EmptyStr
                              THEN "ConnectionDelete" ELSE "connection add"]
    /\ UNCHANGED sessionVars

\* The profiles left once nmcli has deleted the one an identifier names
RECURSIVE WithoutProfile(_, _)
WithoutProfile(profiles, id) ==
    IF profiles = <<>> THEN <<>>
    ELSE IF Head(profiles).NAME = id \/ Head(profiles).UUID = id THEN Tail(profiles)
    ELSE <<Head(profiles)>> \o WithoutProfile(Tail(profiles), id)

\* AddWifiConnectionPSK: ConnectionDelete on the existing profile, whose
\* failure is logged and does not stop the add
RobustDelete ==
    /\ gateway.pc = "ConnectionDelete"
    /\ IF TrimSpace(gateway.target) = EmptyStr
       THEN gateway' = [gateway EXCEPT !.pc = "connection add"]
       ELSE \E deleted \in BOOLEAN :
               gateway' = [gateway EXCEPT
                   !.calls = Append(@, Call("connection delete", gateway.target)),
                   !.profiles = IF deleted THEN WithoutProfile(@, gateway.target) ELSE @,
                   !.pc = "connection add"]
    /\ UNCHANGED sessionVars

\* AddWifiConnectionPSK: "nmcli connection add" of the PSK profile, and what
\* ConnectToWifiRobustly does with its error
RobustAdd ==
    /\ gateway.pc = "connection add"
    /\ LET profileName == ProfileNameOf(gateway.args)
       IN  \E added \in BOOLEAN :
              gateway' = [gateway EXCEPT
                  !.calls = Append(@, Call("connection add", profileName)),
                  !.profiles = IF added
                               THEN Append(@, Profile(profileName, <<48>>, TypeWifi, EmptyStr,
                                                      gateway.args.ssid, EmptyStr))
                               ELSE @,
                  !.addErr = ~added,
                  !.pc = IF added THEN "ConnectionUp" ELSE "done"]
    /\ UNCHANGED sessionVars

\* ConnectionUp on the profile added
RobustUp ==
    /\ gateway.pc = "ConnectionUp"
    /\ LET profileName == ProfileNameOf(gateway.args)
       IN  IF TrimSpace(profileName) = EmptyStr
           THEN gateway' = [gateway EXCEPT !.upErr = "profile identifier cannot be empty",
                                           !.pc = "done"]
           ELSE \E err \in { NoErr, ErrOther } :
                   gateway' = [gateway EXCEPT
                       !.calls = Append(@, Call("connection up", profileName)),
                       !.upErr = err,
                       !.pc = "done"]
    /\ UNCHANGED sessionVars

\* One call of ConnectToWifiRobustly, from its first nmcli call to its return
RobustNext ==
    \/ RobustWifiConnect
    \/ RobustFindExisting
    \/ RobustDelete
    \/ RobustAdd
    \/ RobustUp

RobustSpec == RobustInit /\ [][RobustNext]_vars

(***************************************************************************)
(* Properties of connecting                                                *)
(***************************************************************************)

\* This step handles the connectionAttemptMsg of a connect command, which
\* lastMsg' records
AttemptAnswered ==
    /\ lastMsg'.kind = "connectionAttemptMsg"
    /\ \E c \in InFlight("connectToWifi") :
          c.seq = lastMsg'.seq /\ CopiesIn(c, pending') < CopiesIn(c, pending)

\* This step handles the connectionTimeoutMsg of a timer, which lastMsg' records
TimeoutAnswered ==
    /\ lastMsg'.kind = "connectionTimeoutMsg"
    /\ \E c \in InFlight("connectionTimeout") :
          c.seq = lastMsg'.seq /\ CopiesIn(c, pending') < CopiesIn(c, pending)

\* C12: when a connect result reports failure for an attempt dispatched with
\* knownNoPsk = true and its ssid is the SSID of selectedAP, the next state is
\* PasswordInput, with the password field emptied and focused and the
\* 'stored credentials failed' status, and not ConnectionResult.
EscalationToPassword ==
    [][(/\ AttemptAnswered
        /\ ~lastMsg'.success
        /\ lastMsg'.wasKnownAttemptNoPsk
        /\ lastMsg'.ssid = SSID(selectedAP))
       => (/\ state' = "PasswordInput"
           /\ passwordInput' = TextInput(EmptyStr, TRUE)
           /\ connectionStatusMsg' = Status("Stored credentials failed. Enter password:",
                                            DisplaySSID(selectedAP)))]_vars

\* A known network's attempt without password has just failed and the
\* password is asked for
EscalationToPasswordWitness ==
    /\ lastMsg.kind = "connectionAttemptMsg"
    /\ ~lastMsg.success
    /\ lastMsg.wasKnownAttemptNoPsk
    /\ lastMsg.ssid = SSID(selectedAP)
    /\ state = "PasswordInput"
    /\ passwordInput = TextInput(EmptyStr, TRUE)
    /\ connectionStatusMsg.text = "Stored credentials failed. Enter password:"

\* The connect commands this step dispatches
ConnectsDispatched ==
    { c \in BagToSet(pending') : c.kind = "connectToWifi" /\ ~BagIn(c, pending) }

\* This step handles the failure of a connect command that carried a
\* password, as only the password prompt dispatches
PasswordAttemptFailed ==
    /\ AttemptAnswered
    /\ ~lastMsg'.success
    /\ \E c \in InFlight("connectToWifi") : c.seq = lastMsg'.seq /\ c.id # EmptyStr

\* C13: a connect dispatched from PasswordInput always carries knownNoPsk =
\* false, and the failure of that attempt leads to ConnectionResult with
\* lastConnectionWasSuccessful = false, never back to PasswordInput.
OneShotEscalation ==
    [][/\ state = "PasswordInput" => \A c \in ConnectsDispatched : ~c.flag
       /\ PasswordAttemptFailed
          => (/\ ~lastMsg'.wasKnownAttemptNoPsk
              /\ state' = "ConnectionResult"
              /\ lastConnectionWasSuccessful' = FALSE)]_vars

\* The attempt made with a typed password to a secured network that is not
\* known has failed
OneShotEscalationWitness ==
    /\ lastMsg.kind = "connectionAttemptMsg"
    /\ ~lastMsg.success
    /\ lastMsg.ssid = SSID(selectedAP)
    /\ ~IsOpen(selectedAP) /\ ~selectedAP.IsKnown
    /\ passwordInput.value # EmptyStr
    /\ state = "ConnectionResult"
    /\ connectionStatusMsg.text = "Failed to connect to"

\* C14: a connectionTimeoutMsg for SSID X changes the session iff the state
\* is Connecting and the SSID of selectedAP is X; then the state becomes
\* ConnectionResult with lastConnectionWasSuccessful = false and a 'timed out'
\* status; otherwise (the result arrived first and moved the state on) state,
\* selectedAP, status and lastConnectionWasSuccessful stay as they are.
TimeoutHandling ==
    [][TimeoutAnswered
       => IF state = "Connecting" /\ SSID(selectedAP) = lastMsg'.ssid
          THEN /\ state' = "ConnectionResult"
               /\ lastConnectionWasSuccessful' = FALSE
               /\ connectionStatusMsg' = Status("Connection timed out", lastMsg'.ssid)
               /\ selectedAP' = selectedAP
          ELSE UNCHANGED <<state, selectedAP, connectionStatusMsg,
                           lastConnectionWasSuccessful>>]_vars

\* The timer has fired after the attempt's result was shown, and the result
\* is still shown
TimeoutHandlingWitness ==
    /\ lastMsg.kind = "connectionTimeoutMsg"
    /\ state = "ConnectionResult"
    /\ lastConnectionWasSuccessful
    /\ connectionStatusMsg.text = "Connected to"

\* This step handles the timer of an attempt that has finished (its connect
\* command is no longer in flight) while a later attempt to the same SSID is
\* in Connecting (its connect command, dispatched later, is in flight)
StaleTimerFires ==
    /\ TimeoutAnswered
    /\ state = "Connecting"
    /\ \A c \in InFlight("connectToWifi") : c.seq # lastMsg'.seq
    /\ \E c \in InFlight("connectToWifi") :
          /\ c.seq > lastMsg'.seq
          /\ c.ssid = lastMsg'.ssid
          /\ c.ssid = SSID(selectedAP)

\* C15: the timer of an earlier attempt to SSID X, firing after that attempt
\* has finished and while a later attempt to X is in Connecting, does not
\* move the later attempt to ConnectionResult: the state stays Connecting.
StaleTimeoutIgnored ==
    [][StaleTimerFires => state' = "Connecting"]_vars

\* C16: a connectionAttemptMsg handled when the state is not Connecting, or
\* whose ssid is not the SSID of selectedAP, leaves the view state,
\* lastConnectionWasSuccessful and the status message as they are.
StaleResultDiscarded ==
    [][(AttemptAnswered /\ (state # "Connecting" \/ lastMsg'.ssid # SSID(selectedAP)))
       => UNCHANGED <<state, lastConnectionWasSuccessful, connectionStatusMsg>>]_vars

\* C17: when the messages of the commands in flight are delivered, a session
\* in Connecting eventually shows ConnectionResult or PasswordInput (or has
\* been quit): it never stays in Connecting forever.
AttemptResolved ==
    (state = "Connecting") ~> (state \in {"ConnectionResult", "PasswordInput"} \/ ~running)

\* An attempt has been resolved by its timer
AttemptResolvedWitness ==
    /\ running
    /\ state = "ConnectionResult"
    /\ lastMsg.kind = "connectionTimeoutMsg"
    /\ connectionStatusMsg = Status("Connection timed out", SSID(selectedAP))
    /\ ~isLoading

\* This step is the Connect key on the list with an entry selected, which
\* selectedAP' holds
EntrySelected == KeyConnect /\ wifiList # <<>>

\* The commands this step dispatches
Dispatched == pending' (-) pending

\* This step dispatches something
SomethingDispatched == \E c \in BagToSet(pending') : CopiesIn(c, pending') > CopiesIn(c, pending)

\* C18: in NetworksList, selecting an entry that is open, not known and not
\* active moves to ConfirmOpenNetwork and dispatches nothing; confirming
\* there moves to Connecting and dispatches exactly one connect for the SSID
\* of selectedAP with empty password and knownNoPsk = false, and its timer.
OpenNetworkScenario ==
    [][/\ (/\ EntrySelected
           /\ IsOpen(selectedAP') /\ ~selectedAP'.IsKnown /\ ~selectedAP'.IsActive)
          => (state' = "ConfirmOpenNetwork" /\ ~SomethingDispatched)
       /\ KeyConfirmOpenNetworkConnect
          => (/\ state' = "Connecting"
              /\ BagCardinality(Dispatched) = 2
              /\ \E c \in BagToSet(Dispatched) :
                    /\ c.kind = "connectToWifi"
                    /\ c.ssid = SSID(selectedAP)
                    /\ c.id = EmptyStr
                    /\ ~c.flag
              /\ \E c \in BagToSet(Dispatched) :
                    c.kind = "connectionTimeout" /\ c.ssid = SSID(selectedAP))]_vars

\* The open network has been selected and confirmed: its attempt is in flight
OpenNetworkScenarioWitness ==
    /\ state = "Connecting"
    /\ IsOpen(selectedAP) /\ ~selectedAP.IsKnown /\ ~selectedAP.IsActive
    /\ keysHandled = 2
    /\ \E c \in InFlight("connectToWifi") :
          c.ssid = SSID(selectedAP) /\ c.id = EmptyStr /\ ~c.flag /\ c.seq = 2
    /\ \E c \in InFlight("connectionTimeout") : c.ssid = SSID(selectedAP) /\ c.seq = 2

\* C19: in NetworksList, selecting an entry that is secured, not known and
\* not active moves directly to PasswordInput with the password field
\* emptied and focused, and dispatches no connect.
SecuredUnknownScenario ==
    [][(/\ EntrySelected
        /\ ~IsOpen(selectedAP') /\ ~selectedAP'.IsKnown /\ ~selectedAP'.IsActive)
       => (/\ state' = "PasswordInput"
           /\ passwordInput' = TextInput(EmptyStr, TRUE)
           /\ ~SomethingDispatched)]_vars

\* The secured network has been selected when the password input still held
\* an earlier text: the password is asked for, with the input emptied
SecuredUnknownScenarioWitness ==
    /\ state = "PasswordInput"
    /\ ~IsOpen(selectedAP) /\ ~selectedAP.IsKnown /\ ~selectedAP.IsActive
    /\ keysHandled = 1
    /\ passwordInput = TextInput(EmptyStr, TRUE)
    /\ pending = EmptyBag

\* C20: in NetworksList, selecting an entry with IsActive = true moves to
\* ConfirmDisconnect and dispatches no connect, whatever its security and
\* known flags.
ActiveEntryNeverConnects ==
    [][(EntrySelected /\ selectedAP'.IsActive)
       => (state' = "ConfirmDisconnect" /\ ~SomethingDispatched)]_vars

\* The active entry, a secured network, has been selected
ActiveEntryNeverConnectsWitness ==
    /\ state = "ConfirmDisconnect"
    /\ selectedAP.IsActive /\ ~IsOpen(selectedAP)
    /\ keysHandled = 1
    /\ pending = EmptyBag

\* C21: in NetworksList, selecting an entry that is known and not active
\* moves to Connecting and dispatches exactly one connect, for the SSID of
\* the entry, with empty password and knownNoPsk = true (and its timer); the
\* knownNoPsk of a connect dispatched on selecting an entry is the entry's
\* IsKnown.
KnownNetworkConnect ==
    [][/\ (EntrySelected /\ selectedAP'.IsKnown /\ ~selectedAP'.IsActive)
          => (/\ state' = "Connecting"
              /\ BagCardinality(Dispatched) = 2
              /\ \E c \in BagToSet(Dispatched) :
                    /\ c.kind = "connectToWifi"
                    /\ c.ssid = SSID(selectedAP')
                    /\ c.id = EmptyStr
                    /\ c.flag
              /\ \E c \in BagToSet(Dispatched) :
                    c.kind = "connectionTimeout" /\ c.ssid = SSID(selectedAP'))
       /\ EntrySelected => \A c \in ConnectsDispatched : c.flag = selectedAP'.IsKnown]_vars

\* The known secured network has been selected: its attempt is in flight
KnownNetworkConnectWitness ==
    /\ state = "Connecting"
    /\ selectedAP.IsKnown /\ ~selectedAP.IsActive /\ ~IsOpen(selectedAP)
    /\ keysHandled = 1
    /\ \E c \in InFlight("connectToWifi") :
          c.ssid = SSID(selectedAP) /\ c.id = EmptyStr /\ c.flag /\ c.seq = 1


(***************************************************************************)
(* Properties of disconnecting and forgetting                              *)
(***************************************************************************)

\* The commands of one kind this step dispatches
DispatchedOf(kind) == { c \in BagToSet(Dispatched) : c.kind = kind }

\* C22: when a forget result is handled, the state becomes the previousState
\* recorded when ConfirmForget was entered, NetworksList or the list of known
\* profiles, and the refresh dispatched is the one of that list: the known
\* profiles and the scan for NetworksList, the profile list for the list of
\* known profiles.
ForgetResultHandling ==
    [][HandleForgetNetworkResultMsg =>
          /\ state' = previousState
          /\ state' \in { "NetworksList", "KnownNetworksList" }
          /\ state' = "NetworksList" =>
                /\ DispatchedOf("fetchKnownNetworks") = { fetchKnownNetworksCmd }
                /\ DispatchedOf("fetchWifiNetworks") = { fetchWifiNetworksCmd(TRUE) }
                /\ DispatchedOf("fetchKnownWifiAps") = {}
          /\ state' = "KnownNetworksList" =>
                /\ DispatchedOf("fetchKnownWifiAps") = { fetchKnownWifiApsCmd }
                /\ DispatchedOf("fetchKnownNetworks") = {}
                /\ DispatchedOf("fetchWifiNetworks") = {}]_vars

\* A forget confirmed from the list of known profiles has returned there
ForgetResultHandlingWitness ==
    /\ lastMsg.kind = "forgetNetworkResultMsg"
    /\ state = "KnownNetworksList"
    /\ BagIn(fetchKnownWifiApsCmd, pending)


\* C23 as stated: when a disconnect result is handled, the state becomes
\* NetworksList and activeWifiConnection and activeWifiDevice are cleared.
DisconnectResultClearsActive ==
    [][HandleDisconnectResultMsg =>
          /\ state' = "NetworksList"
          /\ activeWifiConnection' = <<>>
          /\ activeWifiDevice' = EmptyStr]_vars

\* C23, amended: when a disconnect result is handled, the state becomes
\* NetworksList; activeWifiConnection and activeWifiDevice are cleared when
\* the result reports success and keep their values when it reports a
\* failure.
DisconnectResultHandling ==
    [][HandleDisconnectResultMsg =>
          /\ state' = "NetworksList"
          /\ lastMsg'.kind = "disconnectResultMsg"
          /\ IF lastMsg'.success
             THEN activeWifiConnection' = <<>> /\ activeWifiDevice' = EmptyStr
             ELSE UNCHANGED <<activeWifiConnection, activeWifiDevice>>]_vars

\* A failed disconnect has been handled and the connection is still recorded
\* as active
DisconnectResultHandlingWitness ==
    /\ lastMsg.kind = "disconnectResultMsg"
    /\ ~lastMsg.success
    /\ state = "NetworksList"
    /\ activeWifiConnection # <<>>
    /\ BagIn(fetchKnownNetworksCmd, pending)


\* This step confirms in ConfirmDisconnect or in ConfirmForget while the
\* profile has no UUID, no name and no SSID to identify it by
ConfirmedUnresolved ==
    \/ /\ KeyConfirmDisconnectConnect
       /\ getActiveConnectionProfileID(activeWifiConnection, selectedAP) = EmptyStr
    \/ /\ KeyConfirmForgetConnect
       /\ getProfileIdentifier(selectedAP) = EmptyStr

\* The status texts of the two failures to identify a profile
UnresolvedTexts == { "Cannot identify connection to disconnect", "Cannot identify profile for" }

ToggleAnswered ==
    /\ lastMsg'.kind = "wifiStatusMsg"
    /\ \E c \in InFlight("toggleWifi") : CopiesIn(c, pending') < CopiesIn(c, pending)

\* This step handles the result of a connect, a disconnect, a forget or a
\* toggle of the radio
OperationResultHandled ==
    \/ AttemptAnswered
    \/ HandleDisconnectResultMsg
    \/ HandleForgetNetworkResultMsg
    \/ ToggleAnswered

\* C25: handling the result of every connect, disconnect, forget or
\* radio-toggle operation dispatches both a refresh of the known profiles
\* and a refresh of the scan list, whatever the outcome and whatever state
\* the result leads to.
RefreshChaining ==
    [][OperationResultHandled =>
          /\ DispatchedOf("fetchKnownNetworks") # {}
          /\ DispatchedOf("fetchWifiNetworks") # {}]_vars


(***************************************************************************)
(* Properties of the chained refresh and of the status line                *)
(***************************************************************************)

\* This step handles a known-profiles refresh or a scan refresh that failed
RefreshFailed ==
    \/ HandleKnownNetworksMsg /\ UNCHANGED knownProfiles
                              /\ DispatchedOf("clearStatusAfterDelay") # {}
    \/ HandleWifiListLoadedMsg /\ wifiListTitle' = PlainTitle("Error Loading Networks")

\* C26: when the known-profiles or scan refresh dispatched after a connect
\* result fails while the state is ConnectionResult, the state stays
\* ConnectionResult, lastConnectionWasSuccessful keeps its value and the
\* connection result message shown to the user is not replaced.
FailedRefreshKeepsOutcome ==
    [][RefreshFailed /\ state = "ConnectionResult" =>
          /\ state' = "ConnectionResult"
          /\ UNCHANGED lastConnectionWasSuccessful
          /\ UNCHANGED connectionStatusMsg]_vars


\* C27: a clearStatusMsg scheduled for an earlier status message never erases
\* a status message that was set after that clear was scheduled: handling a
\* clearStatusMsg while the status shown is not the one it was scheduled for
\* leaves the status as it is.
StaleClearKeepsNewerStatus ==
    [][HandleClearStatusMsg /\ connectionStatusMsg # clearScheduledFor =>
          UNCHANGED connectionStatusMsg]_vars


(***************************************************************************)
(* Properties of the results of the gateway                                *)
(***************************************************************************)

\* This step handles the message of a command of this kind, which leaves
\* the commands in flight
Answers(kind) == \E c \in InFlight(kind) : CopiesIn(c, pending') < CopiesIn(c, pending)

\* The commands whose message is the result of a background operation: scan,
\* known profiles, connect, disconnect, forget, radio status, device detail
\* and profile list
ResultKinds ==
    { "fetchWifiNetworks", "fetchKnownNetworks", "connectToWifi", "disconnectWifi",
      "forgetNetwork", "getWifiStatus", "toggleWifi", "fetchActiveConnInfo",
      "fetchKnownWifiAps" }

\* This step handles the result message of a background operation
ResultHandled == \E kind \in ResultKinds : Answers(kind)

\* This step handles a wifiStatusMsg that carries an error
StatusFailed ==
    /\ Answers("getWifiStatus") \/ Answers("toggleWifi")
    /\ lastMsg'.kind = "wifiStatusMsg" /\ ~lastMsg'.success

\* A step that handles a failed result, a failed Wi-Fi status apart, sets the
\* status message of that failure, or the error title or error content of
\* the page the result belongs to, or moves to the state that shows it; the
\* failed refresh is the one that schedules the status to be cleared
FailureSurfaced ==
    /\ (Answers("fetchKnownNetworks") /\ DispatchedOf("clearStatusAfterDelay") # {}) =>
          connectionStatusMsg'.text = "Error fetching profiles"
    /\ (Answers("fetchWifiNetworks") /\ DispatchedOf("clearStatusAfterDelay") # {}) =>
          /\ connectionStatusMsg'.text = "Error scanning"
          /\ wifiListTitle' = PlainTitle("Error Loading Networks")
    /\ (AttemptAnswered /\ ~lastMsg'.success) =>
          \/ /\ state' = "ConnectionResult"
             /\ connectionStatusMsg'.text = "Failed to connect to"
          \/ /\ state' = "PasswordInput"
             /\ connectionStatusMsg'.text = "Stored credentials failed. Enter password:"
    /\ (Answers("disconnectWifi") /\ ~lastMsg'.success) =>
          connectionStatusMsg'.text = "Error disconnecting"
    /\ (Answers("forgetNetwork") /\ ~lastMsg'.success) =>
          connectionStatusMsg'.text = "Error forgetting network"
    /\ (Answers("fetchKnownWifiAps") /\ knownWifiList'.title = "Error Loading Profiles") =>
          connectionStatusMsg'.text = "Error loading profiles"
    /\ (Answers("fetchActiveConnInfo") /\ activeConnInfo' = "Error") => ~isLoading'

\* C28 as stated: no background result message, failed or successful, makes
\* Update return the quit command; every failure is turned into a status
\* message or a state transition, and only the quit key produces quit.
FailuresSurfacedNeverQuit ==
    [][/\ ResultHandled => running'
       /\ FailureSurfaced
       /\ StatusFailed =>
             \/ connectionStatusMsg'.text = "Error getting Wi-Fi status"
             \/ state' # state
       /\ (running /\ ~running') => KeyQuit]_vars

\* Apart from the failed Wi-Fi status result handled outside NetworksList,
\* which only resets isLoading, the same holds: no result message makes
\* Update return the quit command, every other failure is turned into a
\* status message or a state transition, and only the quit key produces quit.
GatewayResultsNeverQuit ==
    [][/\ ResultHandled => running'
       /\ FailureSurfaced
       /\ StatusFailed =>
             /\ ~isLoading'
             /\ state = "NetworksList" =>
                   connectionStatusMsg'.text = "Error getting Wi-Fi status"
       /\ (running /\ ~running') => KeyQuit]_vars

\* The details of the active connection could not be fetched, and the
\* session goes on with the error on its page
GatewayResultsNeverQuitWitness ==
    /\ state = "ActiveConnectionInfo"
    /\ activeConnInfo = "Error"
    /\ ~isLoading
    /\ running


(***************************************************************************)
(* Properties of the filter                                                *)
(***************************************************************************)

\* This step handles a character key: one the filter input takes into its
\* text, or the "q" of the Quit binding
CharacterKeyHandled ==
    \/ Len(filterInput') = Len(filterInput) + 1
    \/ running /\ ~running' /\ quitKey' = "q"

\* C29: while isFiltering is true in NetworksList, every character key
\* press, the characters bound to an action elsewhere (quit among them)
\* included, only edits the filter text and the filtered list; it does not
\* change the view state, dispatch a command or quit.
FilterInterceptsCharacters ==
    [][(state = "NetworksList" /\ isFiltering /\ CharacterKeyHandled) =>
          /\ running'
          /\ isFiltering'
          /\ state' = state
          /\ pending' = pending]_vars


\* C30: in filter mode, Enter ends editing (isFiltering = false) while
\* keeping filterQuery, the filtered list and the state NetworksList; Escape
\* ends editing and empties both the filter input and filterQuery.
FilterCommitAndCancel ==
    [][/\ KeyFilterEnter =>
             /\ ~isFiltering'
             /\ UNCHANGED <<filterQuery, wifiList>>
             /\ state' = "NetworksList"
       /\ KeyFilterBack =>
             /\ ~isFiltering'
             /\ filterInput' = EmptyStr
             /\ filterQuery' = EmptyStr]_vars

\* Enter has committed a filter that was typed: editing has ended and the
\* filter is still set
FilterCommitAndCancelWitness ==
    /\ state = "NetworksList"
    /\ ~isFiltering
    /\ filterQuery # EmptyStr
    /\ filterInput = filterQuery


(***************************************************************************)
(* Properties of the operations in flight                                  *)
(***************************************************************************)

\* This step, taken inside a confirm dialog, dispatches its forget or
\* disconnect command once more while the one Enter dispatched before is
\* still in flight
RepeatedConfirm ==
    /\ state \in { "ConfirmForget", "ConfirmDisconnect" }
    /\ \E c \in InFlight("forgetNetwork") \cup InFlight("disconnectWifi") :
          CopiesIn(c, pending') > CopiesIn(c, pending)

\* The connect attempts in flight for each SSID are at most one
RECURSIVE CopiesOf(_, _)
CopiesOf(cmds, inFlight) ==
    IF cmds = {} THEN 0
    ELSE LET c == CHOOSE x \in cmds : TRUE
         IN  CopiesIn(c, inFlight) + CopiesOf(cmds \ {c}, inFlight)

OneConnectPerNetwork ==
    \A c \in InFlight("connectToWifi") :
        CopiesOf({ d \in InFlight("connectToWifi") : d.ssid = c.ssid }, pending) <= 1

\* C31: for one entry into ConfirmForget or ConfirmDisconnect at most one
\* forget or disconnect command is dispatched, however many times Enter is
\* pressed before the result arrives, and for one selected network at most
\* one connect attempt is in flight at any time.
OnePendingPerAction ==
    [][~RepeatedConfirm /\ OneConnectPerNetwork']_vars


\* This step handles a forget or disconnect result
ForgetOrDisconnectAnswered == Answers("forgetNetwork") \/ Answers("disconnectWifi")

\* C32: a forget or disconnect result handled after the user has left the
\* confirm dialog that dispatched it, the state being by then a prompt or
\* the page of a connection, does not change the view state.
StaleForgetDisconnectDiscarded ==
    [][(ForgetOrDisconnectAnswered
        /\ state \in { "PasswordInput", "HiddenNetworkInput", "Connecting",
                       "ConnectionResult", "ConfirmOpenNetwork" }) =>
          state' = state]_vars


(***************************************************************************)
(* Properties of the session once its commands have returned               *)
(***************************************************************************)

\* Every command dispatched has delivered its message
Quiescent == running /\ pending = EmptyBag

\* C33: whenever every dispatched command has delivered its result, the
\* items of the displayed list are the text filter (filterQuery) applied to
\* the merge of allScannedAps, knownProfiles, the active connection and
\* showHiddenNetworks as they are now.
ListIsProjection ==
    Quiescent =>
        \E r \in applyFilterAndUpdateList(allScannedAps, knownProfiles, activeWifiConnection,
                                          showHiddenNetworks, filterQuery) :
            wifiList = r.items


\* C34: in NetworksList and in the list of known profiles, once every
\* dispatched command has delivered its result the loading guard no longer
\* swallows key presses: isLoading is false, or in NetworksList isScanning is
\* true, whatever the results were, empty scans included.
InputNotBlocked ==
    (Quiescent /\ state \in { "NetworksList", "KnownNetworksList" }) =>
        \/ ~isLoading
        \/ state = "NetworksList" /\ isScanning


\* The result message handled last was a radio status that reported Wi-Fi
\* disabled, and no later status has reported it enabled
RadioReportedOff ==
    /\ lastMsg.kind = "wifiStatusMsg"
    /\ lastMsg.success
    /\ ~wifiEnabled

\* C35: from a radio status result that reports Wi-Fi disabled until one
\* reports it enabled, allScannedAps stays empty and the active connection
\* stays nil, whatever scan or profile results are delivered in between.
RadioOffConsistency ==
    RadioReportedOff => (allScannedAps = <<>> /\ activeWifiConnection = <<>>)


\* The three fields a known-profiles result replaces
ProfileFields == <<knownProfiles, activeWifiConnection, activeWifiDevice>>

\* C36: a successful known-profiles result replaces knownProfiles,
\* activeWifiConnection and activeWifiDevice by its values, an absent active
\* connection included; a failed one leaves all three unchanged.
KnownRefreshAllOrNothing ==
    [][Answers("fetchKnownNetworks") =>
          IF DispatchedOf("clearStatusAfterDelay") # {}
          THEN UNCHANGED ProfileFields
          ELSE \E listing \in ProfileListings :
                  LET msg == FetchKnownNetworks(listing[1], listing[2])
                  IN  /\ knownProfiles' = msg.knownProfiles
                      /\ activeWifiConnection' = msg.activeWifiConnection
                      /\ activeWifiDevice' = msg.activeWifiDevice]_vars

\* A failed refresh has kept the profiles and the active connection an
\* earlier successful one stored
KnownRefreshAllOrNothingWitness ==
    /\ connectionStatusMsg = Status("Error fetching profiles", EmptyStr)
    /\ clearScheduledFor = connectionStatusMsg
    /\ activeWifiConnection # <<>>
    /\ wifiEnabled


\* This step handles a successful scan result with zero access points: of the
\* scan results only that one leaves isLoading set, a failed scan and a scan
\* with access points both reset it
EmptyScanHandled ==
    /\ Answers("fetchWifiNetworks")
    /\ isLoading /\ isLoading'

\* C37: a successful scan result with zero access points leaves allScannedAps
\* and the displayed list unchanged and keeps isScanning = true.
EmptyScanIgnored ==
    [][EmptyScanHandled =>
          /\ UNCHANGED <<allScannedAps, wifiList>>
          /\ isScanning => isScanning']_vars


\* The identifier of a stored profile: its UUID, else its name
StoredProfileIdentifier(profile) ==
    IF profile.UUID # EmptyStr THEN profile.UUID ELSE profile.NAME

\* C38: the forget command dispatched on confirming ConfirmForget for a known
\* network selected in NetworksList carries the identifier (UUID, else
\* profile name) of the knownProfiles entry filed under the selected SSID,
\* the identifier used when the profile is forgotten from the list of known
\* profiles.
ForgetTargetsStoredProfile ==
    [][(/\ state = "ConfirmForget"
        /\ previousState = "NetworksList"
        /\ selectedAP.IsKnown
        /\ SSID(selectedAP) \in DOMAIN knownProfiles) =>
          \A c \in DispatchedOf("forgetNetwork") :
              c.id = StoredProfileIdentifier(knownProfiles[SSID(selectedAP)])]_vars


(***************************************************************************)
(* Properties of the hidden network prompt                                 *)
(***************************************************************************)

\* C39: a connect dispatched for an SSID typed into the SSID prompt reaches
\* the gateway's connect call with hidden = true, and a connect for an entry
\* selected from the list reaches it with hidden = false.
HiddenConnectFlag ==
    [][\A c \in DispatchedOf("connectToWifi") :
          WifiConnectArgs(connectToWifiCall(c)).hidden = (selectedAP' = HiddenAP(c.ssid))]_vars


(***************************************************************************)
(* Properties of the gateway's connect                                     *)
(***************************************************************************)

\* The nmcli subcommands ConnectToWifiRobustly has issued so far, in order
IssuedOps == [i \in 1..Len(gateway.calls) |-> gateway.calls[i].op]

\* The place of a subcommand in the order connect, list, delete, add, up
OpRank(op) ==
    CASE op = "device wifi connect" -> 0
      [] op = "connection show" -> 1
      [] op = "connection delete" -> 2
      [] op = "connection add" -> 3
      [] op = "connection up" -> 4

Issued(op) == \E i \in 1..Len(gateway.calls) : gateway.calls[i].op = op

\* C40: ConnectToWifiRobustly deletes or adds a profile only when the
\* password is non-empty and the plain connect failed with the key-mgmt or
\* the secrets signature; the calls then come in the order delete (if a
\* profile exists), add, up, each at most once; up is never issued when the
\* add failed; and with an empty password nothing is deleted or added.
RobustCallOrder ==
    /\ (Issued("connection delete") \/ Issued("connection add")) =>
          /\ gateway.args.password # EmptyStr
          /\ gateway.err \in { ErrKeyMgmt, ErrSecrets }
    /\ \A i, j \in 1..Len(gateway.calls) :
          i < j => OpRank(IssuedOps[i]) < OpRank(IssuedOps[j])
    /\ Issued("connection up") => (Issued("connection add") /\ ~gateway.addErr)
    /\ gateway.addErr => ~Issued("connection up")
    /\ gateway.args.password = EmptyStr =>
          ~(Issued("connection delete") \/ Issued("connection add"))

\* A call has returned after it deleted the stored profile, added the PSK
\* profile and brought it up
RobustCallOrderWitness ==
    /\ gateway.pc = "done"
    /\ IssuedOps = <<"device wifi connect", "connection show", "connection delete",
                     "connection add", "connection up">>

=============================================================================
